---- MODULE Spec2Model ----
(***************************************************************************)
(* Ledger state engine of the ICRC-7 / ICRC-37 / ICRC-3 canister           *)
(* (src/src/icrc7/src/state.rs): token and approval stores, the            *)
(* hash-chained transaction log with its certified tip, the validate /     *)
(* commit batch operations, and the archival task with its suspension      *)
(* points at the two remote calls.                                         *)
(***************************************************************************)
EXTENDS Integers, Sequences, FiniteSets, TLC

(***************************************************************************)
(* Bounds of the model.                                                    *)
(***************************************************************************)
MaxTxn == 3
MaxBatch == 2
MaxTimers == 1
MaxTasks == 2
MaxLog == 4
MaxTicks == 4
\* The transaction window and the permitted drift (24 h and 2 min of
\* nanoseconds in the source), in a coarse time unit with window > drift > 0.
DEFAULT_TX_WINDOW == 2
DEFAULT_PERMITTED_DRIFT == 1
\* The time of the first message: the earliest time whose window floor is 0.
NowStart == DEFAULT_TX_WINDOW + DEFAULT_PERMITTED_DRIFT

(***************************************************************************)
(* Values.                                                                 *)
(***************************************************************************)
Anonymous == "anon"
BurnAccount == "burn"
NoAccount == "-"
Accounts == {"A", "B"}
TokenIds == {0, 1}

\* Option<T> as a record; v is meaningful only when some is TRUE.
NoneNat == [some |-> FALSE, v |-> 0]
SomeNat(x) == [some |-> TRUE, v |-> x]
NoneAcc == [some |-> FALSE, v |-> NoAccount]
SomeAcc(a) == [some |-> TRUE, v |-> a]
\* Option<Vec<u8>>: the memo bytes.
NoneMemo == [some |-> FALSE, v |-> <<>>]
SomeMemo(b) == [some |-> TRUE, v |-> b]
\* Option<Hash>
NoneHash == [some |-> FALSE, v |-> <<>>]
SomeHash(h) == [some |-> TRUE, v |-> h]

\* Result slots of a batch call: None, Some(Ok(id)), Some(Err(e)).
NoResult == [k |-> "None", id |-> 0, e |-> ""]
OkRes(i) == [k |-> "Ok", id |-> i, e |-> ""]
ErrRes(err) == [k |-> "Err", id |-> 0, e |-> err]
DuplicateRes(i) == [k |-> "Err", id |-> i, e |-> "Duplicate"]
IsErr(r) == r.k = "Err"
IsBatchErr(r) == r.k = "Err" /\ r.e = "GenericBatchError"
Trap == <<[k |-> "Trap", id |-> 0, e |-> ""]>>

\* Vec::insert(index, element) with a 0-based index: shifts the tail right.
VecInsert(v, index, x) == SubSeq(v, 1, index) \o <<x>> \o SubSeq(v, index + 1, Len(v))
\* v[index] = element with a 0-based index.
VecSet(v, index, x) == [v EXCEPT ![index + 1] = x]
\* v.get(index).unwrap() with a 0-based index.
VecGet(v, index) == v[index + 1]
VecNone(n) == [i \in 1..n |-> NoResult]

Put(f, k, v) == [x \in (DOMAIN f) \cup {k} |-> IF x = k THEN v ELSE f[x]]
Del(f, k) == [x \in (DOMAIN f) \ {k} |-> f[x]]
EmptyMap == [x \in {} |-> 0]

(***************************************************************************)
(* Configuration fields of State (set at construction, never written by    *)
(* the operations modelled here).                                          *)
(***************************************************************************)
minting_authority == SomeAcc("A")
icrc7_supply_cap == NoneNat
icrc7_max_memo_size == SomeNat(1)
icrc7_max_query_batch_size == SomeNat(MaxBatch)
icrc7_max_update_batch_size == SomeNat(MaxBatch)
tx_window == NoneNat
permitted_drift == NoneNat

DEFAULT_MAX_UPDATE_BATCH_SIZE == 32
DEFAULT_MAX_MEMO_SIZE == 32

UnwrapOr(opt, d) == IF opt.some THEN opt.v ELSE d
\* u64 arithmetic of the time checks, at a reduced width.
U64 == 2 ^ 6
\* u128 arithmetic of the token ids and the log indices, at a reduced width.
U128 == 2 ^ 7

VARIABLES
  tokens,                  \* StableBTreeMap<u128, Icrc7Token>: id -> owner
  token_approvals,         \* id -> (owner -> (spender -> approval))
  collection_approvals,    \* owner -> (spender -> approval)
  txn_ledger,              \* id -> Transaction (with its block)
  txn_count,
  next_token_id,
  icrc7_total_supply,
  archive_ledger_info,     \* first_index, last_index, latest_hash, local_ledger_size, archives, is_cleaning
  tree,                    \* the two certified leaves
  timers,                  \* pending clean-up timers
  tasks,                   \* archival runs suspended at a remote call
  archive_canisters,       \* remote archives: principal -> blocks received
  icrc7_atomic_batch_transfers,
  overflow_checks,         \* build profile: arithmetic overflow panics (TRUE) or wraps
  now,                     \* ic_cdk::api::time()
  call,                    \* the last entry point invoked, with its arguments
  result,                  \* what it returned
  ids_issued               \* every id returned by log_transaction, in order

vars == <<tokens, token_approvals, collection_approvals, txn_ledger, txn_count,
          next_token_id, icrc7_total_supply, archive_ledger_info, tree, timers, tasks,
          archive_canisters, icrc7_atomic_batch_transfers, overflow_checks, now, call,
          result, ids_issued>>

\* The mutable fields of State (and the TREE and TIMER_IDS thread-locals) one
\* message execution works on.
Cur == [tokens |-> tokens, token_approvals |-> token_approvals,
        collection_approvals |-> collection_approvals, txn_ledger |-> txn_ledger,
        txn_count |-> txn_count, next_token_id |-> next_token_id,
        icrc7_total_supply |-> icrc7_total_supply, ali |-> archive_ledger_info,
        tree |-> tree, timers |-> timers, ids_issued |-> ids_issued]

\* The end of a message execution: the state it produced becomes durable.
Commit(s) ==
  /\ tokens' = s.tokens
  /\ token_approvals' = s.token_approvals
  /\ collection_approvals' = s.collection_approvals
  /\ txn_ledger' = s.txn_ledger
  /\ txn_count' = s.txn_count
  /\ next_token_id' = s.next_token_id
  /\ icrc7_total_supply' = s.icrc7_total_supply
  /\ archive_ledger_info' = s.ali
  /\ tree' = s.tree
  /\ timers' = s.timers
  /\ ids_issued' = s.ids_issued


(***************************************************************************)
(* Collaborators whose code is outside state.rs.                           *)
(***************************************************************************)
\* Transaction::new(txn_id, txn_type, at, memo): the record of one operation.
Transaction_new(txn_id, txn_type, at, memo) ==
  [id |-> txn_id, op |-> txn_type.op, tid |-> txn_type.tid, from |-> txn_type.from,
   to |-> txn_type.to, spender |-> txn_type.spender, exp |-> txn_type.exp,
   ts |-> at, memo |-> memo]
\* Block::new(phash, txn)
Block_new(phash, txn) == [phash |-> phash, tx |-> txn]
\* hash_icrc_value: a collision-free content hash of the block value.
hash_icrc_value(block) == <<"sha256", block>>
\* ic_certified_map::leaf_hash
leaf_hash(x) == <<"leaf", x>>

TRANSACTION_TRANSFER_OP == "7xfer"
TRANSACTION_TRANSFER_FROM_OP == "37xfer"
\* The variants of TransactionType.
TxMint(tid, from, to) ==
  [op |-> "7mint", tid |-> tid, from |-> SomeAcc(from), to |-> SomeAcc(to),
   spender |-> NoneAcc, exp |-> NoneNat]
TxTransfer(tid, from, to) ==
  [op |-> TRANSACTION_TRANSFER_OP, tid |-> tid, from |-> SomeAcc(from),
   to |-> SomeAcc(to), spender |-> NoneAcc, exp |-> NoneNat]
TxBurn(tid, from, to) ==
  [op |-> "7burn", tid |-> tid, from |-> SomeAcc(from), to |-> SomeAcc(to),
   spender |-> NoneAcc, exp |-> NoneNat]
TxApproval(tid, from, to, exp) ==
  [op |-> "37appr", tid |-> tid, from |-> SomeAcc(from), to |-> SomeAcc(to),
   spender |-> NoneAcc, exp |-> exp]
TxApproveCollection(from, to, exp) ==
  [op |-> "37appr_coll", tid |-> 0, from |-> SomeAcc(from), to |-> SomeAcc(to),
   spender |-> NoneAcc, exp |-> exp]
TxRevoke(tid, from, to) ==
  [op |-> "37revoke", tid |-> tid, from |-> SomeAcc(from), to |-> to,
   spender |-> NoneAcc, exp |-> NoneNat]
TxRevokeCollection(from, to) ==
  [op |-> "37revoke_coll", tid |-> 0, from |-> SomeAcc(from), to |-> to,
   spender |-> NoneAcc, exp |-> NoneNat]
TxTransferFrom(tid, from, to, spender) ==
  [op |-> TRANSACTION_TRANSFER_FROM_OP, tid |-> tid, from |-> SomeAcc(from),
   to |-> SomeAcc(to), spender |-> SomeAcc(spender), exp |-> NoneNat]

(***************************************************************************)
(* The certified log.                                                      *)
(***************************************************************************)
\* set_clean_up_timer: one more pending timer that will start an archival run.
set_clean_up_timer(s) == [s EXCEPT !.timers = @ + 1]

\* An id derived from the size of the local log, which shrinks on migration.
get_txn_id_local(s) ==
  [id |-> Cardinality(DOMAIN s.txn_ledger), s |-> [s EXCEPT !.txn_count = @ + 1]]

\* get_txn_id: the id handed out, and the state with the counter advanced.
get_txn_id(s) == [id |-> s.txn_count, s |-> [s EXCEPT !.txn_count = @ + 1]]

\* The parent looked up in the local log by id (the variant left commented out
\* in log_transaction), which loses the parent once it was archived.
log_phash_lookup(s) ==
  IF (s.txn_count - 2) \in DOMAIN s.txn_ledger
  THEN SomeHash(hash_icrc_value(s.txn_ledger[s.txn_count - 2].block))
  ELSE NoneHash

\* The parent hash log_transaction gives the new block.
log_phash(s) == s.ali.latest_hash

\* log_transaction: append one record, chain it, advance the tip, certify,
\* and arm the clean-up timer when the local size passes max_active_records.
log_transaction(s0, txn_type, at, memo) ==
  LET g == get_txn_id(s0)
      txn_id == g.id
      s1 == g.s
      txn == Transaction_new(txn_id, txn_type, at, memo)
      phash == log_phash(s1)
      block == Block_new(phash, txn)
      block_hash == hash_icrc_value(block)
      stored == [id |-> txn.id, op |-> txn.op, tid |-> txn.tid, from |-> txn.from,
                 to |-> txn.to, spender |-> txn.spender, exp |-> txn.exp,
                 ts |-> txn.ts, memo |-> txn.memo, block |-> block]
      s2 == [s1 EXCEPT !.txn_ledger = Put(@, txn_id, stored),
                       !.ali.last_index = @ + 1,
                       !.ali.latest_hash = SomeHash(block_hash),
                       !.ali.local_ledger_size = @ + 1,
                       !.ids_issued = Append(@, txn_id)]
      s3 == [s2 EXCEPT !.tree = Put(Put(@, "last_block_index", leaf_hash(s2.ali.last_index)),
                                    "last_block_hash", leaf_hash(block_hash))]
      s4 == IF s3.ali.local_ledger_size > s3.ali.setting.max_active_records
            THEN set_clean_up_timer(s3) ELSE s3
  IN [id |-> txn_id, s |-> s4]

(***************************************************************************)
(* Validation helpers.                                                     *)
(***************************************************************************)
Valid == [k |-> "Valid", id |-> 0, e |-> ""]
Panic == [k |-> "Panic", id |-> 0, e |-> ""]

\* a - b on u64: panics under overflow checks, wraps otherwise.
SubU64(a, b) ==
  IF a >= b THEN [panic |-> FALSE, v |-> a - b]
  ELSE [panic |-> overflow_checks, v |-> (a - b + U64) % U64]
AddU64(a, b) ==
  IF a + b < U64 THEN [panic |-> FALSE, v |-> a + b]
  ELSE [panic |-> overflow_checks, v |-> (a + b) % U64]

\* a + b on u128.
AddU128(a, b) ==
  IF a + b < U128 THEN [panic |-> FALSE, v |-> a + b]
  ELSE [panic |-> overflow_checks, v |-> (a + b) % U128]

MemoTooLong(memo) ==
  memo.some /\ Len(memo.v) > UnwrapOr(icrc7_max_memo_size, DEFAULT_MAX_MEMO_SIZE)

\* txn_deduplication_check: the backward scan, starting at key txn_count.
RECURSIVE dedup_scan(_, _, _, _, _)
dedup_scan(s, count, allowed_past_time, caller, args) ==
  IF count = 0 THEN Valid
  ELSE IF count \notin DOMAIN s.txn_ledger THEN Panic
  ELSE LET txn == s.txn_ledger[count] IN
    IF txn.ts < allowed_past_time THEN Valid
    ELSE IF /\ txn.op \in {TRANSACTION_TRANSFER_OP, TRANSACTION_TRANSFER_FROM_OP}
            /\ args.token_id = txn.tid
            /\ caller = txn.from.v
            /\ args.to = txn.to.v
            /\ args.memo = txn.memo
            /\ args.created_at_time = SomeNat(txn.ts)
         THEN DuplicateRes(count)
         ELSE dedup_scan(s, count - 1, allowed_past_time, caller, args)

\* The key the scan starts at.
dedup_start(s) == s.txn_count

txn_deduplication_check(s, allowed_past_time, caller, args) ==
  dedup_scan(s, dedup_start(s), allowed_past_time, caller, args)

\* is_approved_by_collection
is_approved_by_collection(s, from, spender, now_sec) ==
  /\ from \in DOMAIN s.collection_approvals
  /\ spender \in DOMAIN s.collection_approvals[from]
  /\ LET a == s.collection_approvals[from][spender]
     IN  (~a.expires_at.some) \/ a.expires_at.v > now_sec

\* is_approved_by_token
is_approved_by_token(s, token_id, from, spender, now_sec) ==
  /\ token_id \in DOMAIN s.token_approvals
  /\ from \in DOMAIN s.token_approvals[token_id]
  /\ spender \in DOMAIN s.token_approvals[token_id][from]
  /\ LET a == s.token_approvals[token_id][from][spender]
     IN  (~a.expires_at.some) \/ a.expires_at.v > now_sec

\* token_approvals_clean
token_approvals_clean(s, token_id) == [s EXCEPT !.token_approvals = Del(@, token_id)]


(***************************************************************************)
(* Ownership store: transfer, mint, burn.                                  *)
(***************************************************************************)
\* The two ends of the replay window; panic when the u64 arithmetic overflows
\* in a build with overflow checks.
TimeWindow(current_time) ==
  LET p1 == SubU64(current_time, UnwrapOr(tx_window, DEFAULT_TX_WINDOW))
      p2 == SubU64(p1.v, UnwrapOr(permitted_drift, DEFAULT_PERMITTED_DRIFT))
      f  == AddU64(current_time, UnwrapOr(permitted_drift, DEFAULT_PERMITTED_DRIFT))
  IN [panic |-> p1.panic \/ p2.panic \/ f.panic, past |-> p2.v, future |-> f.v]

\* A validation that does not compare the caller with the owner of the token.
mock_transfer_unchecked(s, current_time, caller, arg) ==
  IF arg.token_id \notin DOMAIN s.tokens THEN ErrRes("NonExistingTokenId")
  ELSE IF arg.to = caller THEN ErrRes("InvalidRecipient")
  ELSE Valid

\* mock_transfer: Valid, an error, or Panic.
mock_transfer(s, current_time, caller, arg) ==
  LET w == TimeWindow(current_time)
      timed == IF ~arg.created_at_time.some THEN Valid
               ELSE IF w.panic THEN Panic
               ELSE IF arg.created_at_time.v < w.past THEN ErrRes("TooOld")
               ELSE IF arg.created_at_time.v > w.future THEN ErrRes("CreatedInFuture")
               ELSE txn_deduplication_check(s, w.past, caller, arg)
  IN IF timed # Valid THEN timed
     ELSE IF arg.token_id \notin DOMAIN s.tokens THEN ErrRes("NonExistingTokenId")
     ELSE IF MemoTooLong(arg.memo) THEN ErrRes("GenericError")
     ELSE IF arg.to = caller THEN ErrRes("InvalidRecipient")
     ELSE IF s.tokens[arg.token_id] # caller THEN ErrRes("Unauthorized")
     ELSE Valid

\* The first loop of a batch call that records failures with
\* txn_results[index] = Some(Err(e)).
RECURSIVE transfer_validate(_, _, _, _, _, _)
transfer_validate(s, current_time, caller, args, index, res) ==
  IF index >= Len(args) THEN res
  ELSE LET v == mock_transfer(s, current_time, caller, args[index + 1])
       IN transfer_validate(s, current_time, caller, args, index + 1,
                            IF v = Valid THEN res ELSE VecSet(res, index, v))

\* What icrc7_transfer does to the stores for one validated item.
transfer_apply(s, arg) == [s EXCEPT !.tokens = Put(@, arg.token_id, arg.to)]

\* The second loop of icrc7_transfer. lp = [s, res, trap, stop].
RECURSIVE transfer_commit(_, _, _, _, _)
transfer_commit(lp, current_time, caller, args, index) ==
  IF index >= Len(args) \/ lp.trap \/ lp.stop THEN lp
  ELSE LET arg == args[index + 1]
           time == UnwrapOr(arg.created_at_time, current_time)
           slot == VecGet(lp.res, index)
       IN IF IsErr(slot)
          THEN transfer_commit([lp EXCEPT !.stop = IsBatchErr(slot)],
                               current_time, caller, args, index + 1)
          ELSE IF arg.token_id \notin DOMAIN lp.s.tokens
          THEN [lp EXCEPT !.trap = TRUE]
          ELSE LET s1 == transfer_apply(lp.s, arg)
                   l == log_transaction(s1, TxTransfer(arg.token_id, caller, arg.to),
                                        time, arg.memo)
               IN transfer_commit([lp EXCEPT !.s = l.s,
                                             !.res = VecSet(lp.res, index, OkRes(l.id))],
                                  current_time, caller, args, index + 1)

HasPanic(res) == \E i \in 1..Len(res) : res[i] = Panic
AnyErr(res) == \E i \in 1..Len(res) : IsErr(res[i])
\* A flag that is never read as set.
AtomicNever(flag) == FALSE
Atomic(flag) == flag = [some |-> TRUE, v |-> TRUE]
Returned(s, res) == [s |-> s, res |-> res, trap |-> FALSE]
Trapped(s) == [s |-> s, res |-> Trap, trap |-> TRUE]
Finish(s0, lp) == IF lp.trap THEN Trapped(s0) ELSE Returned(lp.s, lp.res)

\* icrc7_transfer
icrc7_transfer(s, atomic, current_time, caller, args) ==
  IF Len(args) = 0 THEN Returned(s, <<ErrRes("GenericBatchError")>>)
  ELSE IF Len(args) > UnwrapOr(icrc7_max_query_batch_size, DEFAULT_MAX_UPDATE_BATCH_SIZE)
  THEN Returned(s, VecSet(VecNone(Len(args)), 0, ErrRes("GenericBatchError")))
  ELSE IF caller = Anonymous
  THEN Returned(s, VecSet(VecNone(Len(args)), 0, ErrRes("GenericBatchError")))
  ELSE LET res1 == transfer_validate(s, current_time, caller, args, 0, VecNone(Len(args)))
       IN IF HasPanic(res1) THEN Trapped(s)
          ELSE IF Atomic(atomic) /\ AnyErr(res1) THEN Returned(s, res1)
          ELSE Finish(s, transfer_commit([s |-> s, res |-> res1, trap |-> FALSE,
                                          stop |-> FALSE], current_time, caller, args, 0))

\* mock_mint
mock_mint(s, caller, arg) ==
  IF icrc7_supply_cap.some /\ icrc7_supply_cap.v = s.icrc7_total_supply
  THEN ErrRes("SupplyCapReached")
  ELSE IF ~minting_authority.some THEN ErrRes("GenericBatchError")
  ELSE IF SomeAcc(caller) # minting_authority THEN ErrRes("Unauthorized")
  ELSE IF MemoTooLong(arg.memo) THEN ErrRes("GenericError")
  ELSE IF arg.token_id < s.next_token_id THEN ErrRes("TokenIdMinimumLimit")
  ELSE IF arg.token_id \in DOMAIN s.tokens THEN ErrRes("TokenIdAlreadyExist")
  ELSE Valid

\* mint
mint(s, current_time, caller, arg) ==
  LET v == mock_mint(s, caller, arg) IN
  IF v # Valid THEN Returned(s, <<v>>)
  ELSE LET next == AddU128(arg.token_id, 1)
           s1 == [s EXCEPT !.tokens = Put(@, arg.token_id, arg.to),
                           !.icrc7_total_supply = @ + 1,
                           !.next_token_id = next.v]
           l == log_transaction(s1, TxMint(arg.token_id, caller, arg.to),
                                current_time, arg.memo)
       IN IF next.panic THEN Trapped(s) ELSE Returned(l.s, <<OkRes(l.id)>>)

\* mock_burn
mock_burn(s, caller, arg) ==
  IF MemoTooLong(arg.memo) THEN ErrRes("GenericError")
  ELSE IF arg.token_id \notin DOMAIN s.tokens THEN ErrRes("NonExistingTokenId")
  ELSE IF s.tokens[arg.token_id] # caller THEN ErrRes("Unauthorized")
  ELSE Valid

\* The first loop of a batch call that records failures with
\* txn_results.insert(index, Some(Err(e))).
RECURSIVE burn_validate(_, _, _, _, _)
burn_validate(s, caller, args, index, res) ==
  IF index >= Len(args) THEN res
  ELSE LET v == mock_burn(s, caller, args[index + 1])
       IN burn_validate(s, caller, args, index + 1,
                        IF v = Valid THEN res ELSE VecInsert(res, index, v))

\* The second loop of burn.
RECURSIVE burn_commit(_, _, _, _, _)
burn_commit(lp, current_time, caller, args, index) ==
  IF index >= Len(args) \/ lp.trap \/ lp.stop THEN lp
  ELSE LET arg == args[index + 1]
           slot == VecGet(lp.res, index)
       IN IF IsErr(slot)
          THEN burn_commit([lp EXCEPT !.stop = IsBatchErr(slot)],
                           current_time, caller, args, index + 1)
          ELSE IF arg.token_id \notin DOMAIN lp.s.tokens
          THEN [lp EXCEPT !.trap = TRUE]
          ELSE LET s1 == [lp.s EXCEPT !.tokens = Put(@, arg.token_id, BurnAccount)]
                   l == log_transaction(s1, TxBurn(arg.token_id, caller, BurnAccount),
                                        current_time, arg.memo)
               IN burn_commit([lp EXCEPT !.s = l.s,
                                         !.res = VecInsert(lp.res, index, OkRes(l.id))],
                              current_time, caller, args, index + 1)

\* burn
burn(s, atomic, current_time, caller, args) ==
  IF Len(args) = 0 THEN Returned(s, <<ErrRes("GenericBatchError")>>)
  ELSE IF caller = Anonymous
  THEN Returned(s, VecSet(VecNone(Len(args)), 0, ErrRes("GenericBatchError")))
  ELSE LET res1 == burn_validate(s, caller, args, 0, VecNone(Len(args)))
       IN IF Atomic(atomic) /\ AnyErr(res1) THEN Returned(s, res1)
          ELSE Finish(s, burn_commit([s |-> s, res |-> res1, trap |-> FALSE,
                                      stop |-> FALSE], current_time, caller, args, 0))


(***************************************************************************)
(* Approval subsystem.                                                     *)
(***************************************************************************)
\* The stored approval detail.
ApprovalInfo(arg) == [spender |-> arg.spender, expires_at |-> arg.expires_at]
\* TokenApprovalInfo::new(owner, info): owner -> spender -> info
TokenApprovalInfo_new(owner, info) ==
  Put(EmptyMap, owner, Put(EmptyMap, info.spender, info))
\* CollectionApprovalInfo::new(spender, info): spender -> info
CollectionApprovalInfo_new(spender, info) == Put(EmptyMap, spender, info)

\* mock_approve
mock_approve(s, caller, arg) ==
  IF arg.spender = caller THEN ErrRes("InvalidSpender")
  ELSE IF MemoTooLong(arg.memo) THEN ErrRes("GenericError")
  ELSE IF arg.token_id \notin DOMAIN s.tokens THEN ErrRes("NonExistingTokenId")
  ELSE IF s.tokens[arg.token_id] # caller THEN ErrRes("NonExistingTokenId")
  ELSE Valid

RECURSIVE approve_validate(_, _, _, _, _)
approve_validate(s, caller, args, index, res) ==
  IF index >= Len(args) THEN res
  ELSE LET v == mock_approve(s, caller, args[index + 1])
       IN approve_validate(s, caller, args, index + 1,
                           IF v = Valid THEN res ELSE VecInsert(res, index, v))

\* What approve does to the store for one item: a record is inserted when the
\* token has none; otherwise the value read from the map is updated and dropped.
approve_apply(s, caller, arg) ==
  IF arg.token_id \notin DOMAIN s.token_approvals
  THEN [s EXCEPT !.token_approvals =
          Put(@, arg.token_id, TokenApprovalInfo_new(caller, ApprovalInfo(arg)))]
  ELSE s

RECURSIVE approve_commit(_, _, _, _, _)
approve_commit(lp, current_time, caller, args, index) ==
  IF index >= Len(args) \/ lp.trap \/ lp.stop THEN lp
  ELSE LET arg == args[index + 1]
           slot == VecGet(lp.res, index)
       IN IF IsErr(slot)
          THEN approve_commit([lp EXCEPT !.stop = IsBatchErr(slot)],
                              current_time, caller, args, index + 1)
          ELSE LET s1 == approve_apply(lp.s, caller, arg)
                   l == log_transaction(s1, TxApproval(arg.token_id, caller, arg.spender,
                                                       arg.expires_at),
                                        current_time, arg.memo)
               IN approve_commit([lp EXCEPT !.s = l.s,
                                            !.res = VecInsert(lp.res, index, OkRes(l.id))],
                                 current_time, caller, args, index + 1)

\* The batch preconditions of the ICRC-37 calls: a one-slot GenericError.
BatchTooLong(args) == Len(args) > UnwrapOr(icrc7_max_update_batch_size, 0)

\* approve
approve(s, atomic, current_time, caller, args) ==
  IF Len(args) = 0 THEN Returned(s, <<ErrRes("GenericError")>>)
  ELSE IF BatchTooLong(args) THEN Returned(s, <<ErrRes("GenericError")>>)
  ELSE LET res1 == approve_validate(s, caller, args, 0, VecNone(Len(args)))
       IN IF Atomic(atomic) /\ AnyErr(res1) THEN Returned(s, res1)
          ELSE Finish(s, approve_commit([s |-> s, res |-> res1, trap |-> FALSE,
                                         stop |-> FALSE], current_time, caller, args, 0))

\* mock_collection_approve
mock_collection_approve(s, caller, arg, current_time) ==
  IF arg.spender = caller THEN ErrRes("InvalidSpender")
  ELSE IF arg.expires_at.some /\ arg.expires_at.v < current_time THEN ErrRes("TooOld")
  ELSE IF MemoTooLong(arg.memo) THEN ErrRes("GenericError")
  ELSE Valid

RECURSIVE collection_approve_validate(_, _, _, _, _, _)
collection_approve_validate(s, current_time, caller, args, index, res) ==
  IF index >= Len(args) THEN res
  ELSE LET v == mock_collection_approve(s, caller, args[index + 1], current_time)
       IN collection_approve_validate(s, current_time, caller, args, index + 1,
                                      IF v = Valid THEN res ELSE VecInsert(res, index, v))

collection_approve_apply(s, caller, arg) ==
  IF caller \notin DOMAIN s.collection_approvals
  THEN [s EXCEPT !.collection_approvals =
          Put(@, caller, CollectionApprovalInfo_new(arg.spender, ApprovalInfo(arg)))]
  ELSE s

RECURSIVE collection_approve_commit(_, _, _, _, _)
collection_approve_commit(lp, current_time, caller, args, index) ==
  IF index >= Len(args) \/ lp.trap \/ lp.stop THEN lp
  ELSE LET arg == args[index + 1]
           slot == VecGet(lp.res, index)
       IN IF IsErr(slot)
          THEN collection_approve_commit([lp EXCEPT !.stop = IsBatchErr(slot)],
                                         current_time, caller, args, index + 1)
          ELSE LET s1 == collection_approve_apply(lp.s, caller, arg)
                   l == log_transaction(s1, TxApproveCollection(caller, arg.spender,
                                                                arg.expires_at),
                                        current_time, arg.memo)
               IN collection_approve_commit(
                    [lp EXCEPT !.s = l.s, !.res = VecInsert(lp.res, index, OkRes(l.id))],
                    current_time, caller, args, index + 1)

\* collection_approve
collection_approve(s, atomic, current_time, caller, args) ==
  IF Len(args) = 0 THEN Returned(s, <<ErrRes("GenericError")>>)
  ELSE IF BatchTooLong(args) THEN Returned(s, <<ErrRes("GenericError")>>)
  ELSE LET res1 == collection_approve_validate(s, current_time, caller, args, 0,
                                               VecNone(Len(args)))
       IN IF Atomic(atomic) /\ AnyErr(res1) THEN Returned(s, res1)
          ELSE Finish(s, collection_approve_commit(
                           [s |-> s, res |-> res1, trap |-> FALSE, stop |-> FALSE],
                           current_time, caller, args, 0))

\* mock_revoke_approve
mock_revoke_approve(s, caller, arg) ==
  IF arg.spender.some /\ arg.spender.v = caller THEN ErrRes("GenericBatchError")
  ELSE IF MemoTooLong(arg.memo) THEN ErrRes("GenericBatchError")
  ELSE IF arg.token_id \notin DOMAIN s.tokens THEN ErrRes("NonExistingTokenId")
  ELSE IF s.tokens[arg.token_id] # caller THEN ErrRes("Unauthorized")
  ELSE Valid

RECURSIVE revoke_validate(_, _, _, _, _)
revoke_validate(s, caller, args, index, res) ==
  IF index >= Len(args) THEN res
  ELSE LET v == mock_revoke_approve(s, caller, args[index + 1])
       IN revoke_validate(s, caller, args, index + 1,
                          IF v = Valid THEN res ELSE VecInsert(res, index, v))

\* What revoke_approve does to the store for one item: remove_approve is applied
\* to the value read from the map, which is then dropped.
revoke_apply(s, caller, arg) == s

RECURSIVE revoke_commit(_, _, _, _, _)
revoke_commit(lp, current_time, caller, args, index) ==
  IF index >= Len(args) \/ lp.trap \/ lp.stop THEN lp
  ELSE LET arg == args[index + 1]
           slot == VecGet(lp.res, index)
       IN IF IsErr(slot)
          THEN revoke_commit([lp EXCEPT !.stop = IsBatchErr(slot)],
                             current_time, caller, args, index + 1)
          ELSE LET res1 == IF arg.token_id \notin DOMAIN lp.s.token_approvals
                           THEN VecInsert(lp.res, index, OkRes(arg.token_id))
                           ELSE lp.res
                   s1 == revoke_apply(lp.s, caller, arg)
                   l == log_transaction(s1, TxRevoke(arg.token_id, caller, arg.spender),
                                        current_time, arg.memo)
               IN revoke_commit([lp EXCEPT !.s = l.s,
                                           !.res = VecInsert(res1, index, OkRes(l.id))],
                                current_time, caller, args, index + 1)

\* revoke_approve
revoke_approve(s, atomic, current_time, caller, args) ==
  IF Len(args) = 0 THEN Returned(s, <<ErrRes("GenericError")>>)
  ELSE IF BatchTooLong(args) THEN Returned(s, <<ErrRes("GenericError")>>)
  ELSE LET res1 == revoke_validate(s, caller, args, 0, VecNone(Len(args)))
       IN IF Atomic(atomic) /\ AnyErr(res1) THEN Returned(s, res1)
          ELSE Finish(s, revoke_commit([s |-> s, res |-> res1, trap |-> FALSE,
                                        stop |-> FALSE], current_time, caller, args, 0))

\* A validation that rejects the revocation of an approval that is not stored.
mock_revoke_collection_approve_existing(s, caller, arg, current_time) ==
  LET f == AddU64(current_time, UnwrapOr(permitted_drift, DEFAULT_PERMITTED_DRIFT)) IN
  IF arg.spender.some /\ arg.spender.v = caller THEN ErrRes("GenericBatchError")
  ELSE IF arg.created_at_time.some /\ f.panic THEN Panic
  ELSE IF arg.created_at_time.some /\ arg.created_at_time.v < f.v THEN ErrRes("TooOld")
  ELSE IF MemoTooLong(arg.memo) THEN ErrRes("GenericBatchError")
  ELSE IF caller \notin DOMAIN s.collection_approvals THEN ErrRes("ApprovalDoesNotExist")
  ELSE IF arg.spender.some /\ arg.spender.v \notin DOMAIN s.collection_approvals[caller]
  THEN ErrRes("ApprovalDoesNotExist")
  ELSE Valid

\* mock_revoke_collection_approve
mock_revoke_collection_approve(s, caller, arg, current_time) ==
  LET f == AddU64(current_time, UnwrapOr(permitted_drift, DEFAULT_PERMITTED_DRIFT)) IN
  IF arg.spender.some /\ arg.spender.v = caller THEN ErrRes("GenericBatchError")
  ELSE IF arg.created_at_time.some /\ f.panic THEN Panic
  ELSE IF arg.created_at_time.some /\ arg.created_at_time.v < f.v THEN ErrRes("TooOld")
  ELSE IF MemoTooLong(arg.memo) THEN ErrRes("GenericBatchError")
  ELSE Valid

RECURSIVE revoke_collection_validate(_, _, _, _, _, _)
revoke_collection_validate(s, current_time, caller, args, index, res) ==
  IF index >= Len(args) THEN res
  ELSE LET v == mock_revoke_collection_approve(s, caller, args[index + 1], current_time)
       IN revoke_collection_validate(s, current_time, caller, args, index + 1,
                                     IF v = Valid THEN res ELSE VecInsert(res, index, v))

\* What revoke_collection_approve does to the store for one item: without a
\* spender the owner's record is removed; with one, remove_approve is applied to
\* the value read from the map, which is then dropped.
revoke_collection_apply(s, caller, arg) ==
  IF caller \in DOMAIN s.collection_approvals /\ ~arg.spender.some
  THEN [s EXCEPT !.collection_approvals = Del(@, caller)]
  ELSE s

RECURSIVE revoke_collection_commit(_, _, _, _, _)
revoke_collection_commit(lp, current_time, caller, args, index) ==
  IF index >= Len(args) \/ lp.trap \/ lp.stop THEN lp
  ELSE LET arg == args[index + 1]
           slot == VecGet(lp.res, index)
       IN IF IsErr(slot)
          THEN revoke_collection_commit([lp EXCEPT !.stop = IsBatchErr(slot)],
                                        current_time, caller, args, index + 1)
          ELSE LET s1 == revoke_collection_apply(lp.s, caller, arg)
                   l == log_transaction(s1, TxRevokeCollection(caller, arg.spender),
                                        current_time, arg.memo)
               IN revoke_collection_commit(
                    [lp EXCEPT !.s = l.s, !.res = VecInsert(lp.res, index, OkRes(l.id))],
                    current_time, caller, args, index + 1)

\* revoke_collection_approve
revoke_collection_approve(s, atomic, current_time, caller, args) ==
  IF Len(args) = 0 THEN Returned(s, <<ErrRes("GenericError")>>)
  ELSE IF BatchTooLong(args) THEN Returned(s, <<ErrRes("GenericError")>>)
  ELSE LET res1 == revoke_collection_validate(s, current_time, caller, args, 0,
                                              VecNone(Len(args)))
       IN IF HasPanic(res1) THEN Trapped(s)
          ELSE IF Atomic(atomic) /\ AnyErr(res1) THEN Returned(s, res1)
          ELSE Finish(s, revoke_collection_commit(
                           [s |-> s, res |-> res1, trap |-> FALSE, stop |-> FALSE],
                           current_time, caller, args, 0))


(***************************************************************************)
(* Transfer on behalf of the owner.                                        *)
(***************************************************************************)
\* TransferFromArg -> TransferArg, as handed to the deduplication check.
TransferArg_from(arg) ==
  [token_id |-> arg.token_id, to |-> arg.to, memo |-> arg.memo,
   created_at_time |-> arg.created_at_time]

\* mock_transfer_from
mock_transfer_from(s, caller, arg, current_time) ==
  LET w == TimeWindow(current_time)
      dd == txn_deduplication_check(s, w.past, caller, TransferArg_from(arg))
  IN IF arg.to = caller THEN ErrRes("GenericBatchError")
     ELSE IF arg.created_at_time.some /\ w.panic THEN Panic
     ELSE IF arg.created_at_time.some /\ arg.created_at_time.v < w.past
     THEN ErrRes("TooOld")
     ELSE IF arg.created_at_time.some /\ arg.created_at_time.v > w.future
     THEN ErrRes("CreatedInFuture")
     ELSE IF /\ arg.created_at_time.some
             /\ ~is_approved_by_collection(s, arg.from, caller, current_time)
             /\ ~is_approved_by_token(s, arg.token_id, arg.from, caller, current_time)
     THEN ErrRes("Unauthorized")
     ELSE IF arg.created_at_time.some /\ dd = Panic THEN Panic
     ELSE IF arg.created_at_time.some /\ dd # Valid THEN DuplicateRes(arg.token_id)
     ELSE IF MemoTooLong(arg.memo) THEN ErrRes("GenericBatchError")
     ELSE Valid

RECURSIVE transfer_from_validate(_, _, _, _, _, _)
transfer_from_validate(s, current_time, caller, args, index, res) ==
  IF index >= Len(args) THEN res
  ELSE LET v == mock_transfer_from(s, caller, args[index + 1], current_time)
       IN transfer_from_validate(s, current_time, caller, args, index + 1,
                                 IF v = Valid THEN res ELSE VecInsert(res, index, v))

\* What transfer_from does to the stores for one item.
transfer_from_apply(s, arg) ==
  LET s1 == token_approvals_clean(s, arg.token_id)
  IN [s1 EXCEPT !.tokens = Put(@, arg.token_id, arg.to)]

RECURSIVE transfer_from_commit(_, _, _, _, _)
transfer_from_commit(lp, current_time, caller, args, index) ==
  IF index >= Len(args) \/ lp.trap \/ lp.stop THEN lp
  ELSE LET arg == args[index + 1]
           time == UnwrapOr(arg.created_at_time, current_time)
           slot == VecGet(lp.res, index)
       IN IF IsErr(slot)
          THEN transfer_from_commit([lp EXCEPT !.stop = IsBatchErr(slot)],
                                    current_time, caller, args, index + 1)
          ELSE IF arg.token_id \notin DOMAIN lp.s.tokens
          THEN [lp EXCEPT !.trap = TRUE]
          ELSE LET s1 == transfer_from_apply(lp.s, arg)
                   l == log_transaction(s1, TxTransferFrom(arg.token_id, arg.from, arg.to,
                                                           caller),
                                        time, arg.memo)
               IN transfer_from_commit([lp EXCEPT !.s = l.s,
                                                  !.res = VecSet(lp.res, index, OkRes(l.id))],
                                       current_time, caller, args, index + 1)

\* transfer_from
transfer_from(s, atomic, current_time, caller, args) ==
  IF Len(args) = 0 THEN Returned(s, <<ErrRes("GenericError")>>)
  ELSE IF BatchTooLong(args) THEN Returned(s, <<ErrRes("GenericError")>>)
  ELSE LET res1 == transfer_from_validate(s, current_time, caller, args, 0,
                                          VecNone(Len(args)))
       IN IF HasPanic(res1) THEN Trapped(s)
          ELSE IF Atomic(atomic) /\ AnyErr(res1) THEN Returned(s, res1)
          ELSE Finish(s, transfer_from_commit(
                           [s |-> s, res |-> res1, trap |-> FALSE, stop |-> FALSE],
                           current_time, caller, args, 0))

\* icrc7_balance_of for one account: the linear scan over the token map.
icrc7_balance_of(s, account) == Cardinality({t \in DOMAIN s.tokens : s.tokens[t] = account})


(***************************************************************************)
(* Archival controller: clean_local_ledger_task, cut at its suspension     *)
(* points (the awaits on create_archive_canister and call_append_blocks).  *)
(***************************************************************************)
ArchiveIds == 1..3

\* archives.into_iter().last(): the entry with the greatest principal.
LastArchive(archives) == CHOOSE p \in DOMAIN archives : \A q \in DOMAIN archives : q <= p

\* get_archive_txn_ledger(size): the ids of the first `size` local entries.
get_archive_txn_ledger(s, size) ==
  {i \in DOMAIN s.txn_ledger : Cardinality({j \in DOMAIN s.txn_ledger : j < i}) < size}

RECURSIVE SetToSeq(_)
SetToSeq(ids) ==
  IF ids = {} THEN <<>>
  ELSE LET m == CHOOSE i \in ids : \A j \in ids : i <= j
       IN <<m>> \o SetToSeq(ids \ {m})

\* remove_txn_logs
remove_txn_logs(s, txn_ids) ==
  [s EXCEPT !.txn_ledger = [i \in (DOMAIN @) \ txn_ids |-> @[i]]]

\* add_archive
add_archive(s, canister_id, range) ==
  [s EXCEPT !.ali.archives = Put(@, canister_id, range)]

\* Lines 1966-1996: the slice to move, taken from the ledger as it is when the
\* run reaches this point; txn_ledger_size is the size read when the run began.
\* The run then suspends at call_append_blocks.
migrate_prepare(s, txn_ledger_size, archive, capacity) ==
  LET setting == s.ali.setting
      a0 == txn_ledger_size - setting.settle_to_records
      a1 == IF a0 > capacity THEN capacity ELSE a0
      a2 == IF a1 > setting.max_records_to_archive
            THEN setting.max_records_to_archive ELSE a1
      ids == SetToSeq(get_archive_txn_ledger(s, a2))
  IN [pc |-> "append", archive |-> archive, ids |-> ids,
      blocks |-> [i \in 1..Len(ids) |-> s.txn_ledger[ids[i]].block],
      is_recall_at_end |-> (a0 > capacity) \/ (a1 > setting.max_records_to_archive),
      txn_ledger_size |-> txn_ledger_size, start |-> 0]

\* Lines 1832-1964 up to the first await: [s, task], task.pc = "done" when the
\* run returned without suspending.
clean_start(s, rich) ==
  LET setting == s.ali.setting
      txn_ledger_size == Cardinality(DOMAIN s.txn_ledger)
      local_first_index == s.ali.first_index
      archive_count == Cardinality(DOMAIN s.ali.archives)
      done == [pc |-> "done", archive |-> 0, ids |-> <<>>, blocks |-> <<>>,
               is_recall_at_end |-> FALSE, txn_ledger_size |-> txn_ledger_size,
               start |-> 0]
      create(first) == [done EXCEPT !.pc = "create", !.start = first]
      s1 == [s EXCEPT !.ali.is_cleaning = TRUE]
      s0 == [s EXCEPT !.ali.is_cleaning = FALSE]
  IN IF txn_ledger_size < setting.max_active_records THEN [s |-> s, task |-> done]
     ELSE IF txn_ledger_size < setting.settle_to_records THEN [s |-> s, task |-> done]
     ELSE IF archive_count = 0
     THEN IF rich THEN [s |-> s1, task |-> create(0)] ELSE [s |-> s0, task |-> done]
     ELSE LET last == LastArchive(s.ali.archives)
              range == s.ali.archives[last]
          IN IF range.length >= setting.max_records_in_archive_instance
             THEN IF rich THEN [s |-> s1, task |-> create(local_first_index)]
                  ELSE [s |-> s0, task |-> done]
             ELSE [s |-> s1,
                   task |-> migrate_prepare(s1, txn_ledger_size, last,
                              setting.max_records_in_archive_instance - range.length)]

\* The run resumes after create_archive_canister returned Ok(canister_id).
clean_created(s, task, canister_id) ==
  LET s1 == add_archive(s, canister_id, [start |-> task.start, length |-> 0])
  IN [s |-> s1,
      task |-> migrate_prepare(s1, task.txn_ledger_size, canister_id,
                               s.ali.setting.max_records_in_archive_instance)]

\* The run resumes after create_archive_canister returned Err: lines 1893-1900,
\* then 2025-2030 with last_archive = None.
clean_create_failed(s) == [s EXCEPT !.ali.is_cleaning = FALSE]

\* A bookkeeping that removes the slice and grows the archive's range but
\* leaves first_index where it was.
migrate_done_keep_index(s, task) ==
  LET s1 == remove_txn_logs(s, {task.ids[i] : i \in 1..Len(task.ids)})
  IN IF task.archive \in DOMAIN s1.ali.archives
     THEN [s1 EXCEPT !.ali.archives[task.archive].length = @ + Len(task.ids)]
     ELSE s1

\* Lines 2001-2015: the bookkeeping after call_append_blocks returned Ok.
migrate_done(s, task) ==
  LET s1 == remove_txn_logs(s, {task.ids[i] : i \in 1..Len(task.ids)})
      s2 == [s1 EXCEPT !.ali.first_index = @ + Len(task.ids)]
  IN IF task.archive \in DOMAIN s2.ali.archives
     THEN [s2 EXCEPT !.ali.archives[task.archive].length = @ + Len(task.ids)]
     ELSE s2

\* A run that drops the slice from the local log whatever the archive answered.
clean_appended_unconditional(s, task, ok) ==
  LET s2 == [migrate_done(s, task) EXCEPT !.ali.is_cleaning = FALSE]
  IN IF task.is_recall_at_end THEN set_clean_up_timer(s2) ELSE s2

\* Lines 2000-2030: the run resumes after call_append_blocks returned.
clean_appended(s, task, ok) ==
  LET s1 == IF ok THEN migrate_done(s, task) ELSE [s EXCEPT !.ali.is_cleaning = FALSE]
      s2 == [s1 EXCEPT !.ali.is_cleaning = FALSE]
  IN IF task.is_recall_at_end THEN set_clean_up_timer(s2) ELSE s2


(***************************************************************************)
(* Initial state: State::default() and the empty TREE and TIMER_IDS.       *)
(***************************************************************************)
\* ArchiveLedgerInfo::default() with the archive setting of the deployment.
ArchiveLedgerInfo_default(setting) ==
  [first_index |-> 0, last_index |-> 0, latest_hash |-> NoneHash,
   local_ledger_size |-> 0, archives |-> EmptyMap, is_cleaning |-> FALSE,
   setting |-> setting]

NoneBool == [some |-> FALSE, v |-> FALSE]
SomeBool(b) == [some |-> TRUE, v |-> b]
\* call and result record the last entry point invoked and what it returned, in
\* the specifications whose claims read them; elsewhere call stays Untraced.
Idle == [op |-> "idle", caller |-> NoAccount, args |-> <<>>]
Untraced == [op |-> "untraced", caller |-> NoAccount, args |-> <<>>]

InitWith(settings, atomics, checks, now0, call0) ==
  /\ tokens = EmptyMap
  /\ token_approvals = EmptyMap
  /\ collection_approvals = EmptyMap
  /\ txn_ledger = EmptyMap
  /\ txn_count = 0
  /\ next_token_id = 0
  /\ icrc7_total_supply = 0
  /\ archive_ledger_info \in {ArchiveLedgerInfo_default(setting) : setting \in settings}
  /\ tree = EmptyMap
  /\ timers = 0
  /\ tasks = <<>>
  /\ archive_canisters = EmptyMap
  /\ icrc7_atomic_batch_transfers \in atomics
  /\ overflow_checks \in checks
  /\ now = now0
  /\ call = call0
  /\ result = <<>>
  /\ ids_issued = <<>>

(***************************************************************************)
(* Actions: one per entry point, one per segment of the archival run, and  *)
(* the delivery of a reply to the caller.                                  *)
(***************************************************************************)
\* One update call: its effects become durable unless it trapped.
Do(op, caller, args, out, cap) ==
  /\ call \in {Idle, Untraced}
  /\ out.s.txn_count <= cap
  /\ out.s.timers <= MaxTimers
  /\ call' = IF call = Untraced THEN call ELSE [op |-> op, caller |-> caller, args |-> args]
  /\ result' = IF call = Untraced THEN result ELSE out.res
  /\ Commit(out.s)
  /\ UNCHANGED <<tasks, archive_canisters, icrc7_atomic_batch_transfers,
                 overflow_checks, now>>

\* The caller receives the reply.
Reply ==
  /\ call \notin {Idle, Untraced}
  /\ call' = Idle
  /\ result' = <<>>
  /\ UNCHANGED <<tokens, token_approvals, collection_approvals, txn_ledger, txn_count,
                 next_token_id, icrc7_total_supply, archive_ledger_info, tree, timers,
                 tasks, archive_canisters, icrc7_atomic_batch_transfers, overflow_checks,
                 now, ids_issued>>

\* Time passes between two messages.
Tick ==
  /\ call \in {Idle, Untraced}
  /\ now < NowStart + MaxTicks
  /\ now' = now + 1
  /\ UNCHANGED <<tokens, token_approvals, collection_approvals, txn_ledger, txn_count,
                 next_token_id, icrc7_total_supply, archive_ledger_info, tree, timers,
                 tasks, archive_canisters, icrc7_atomic_batch_transfers, overflow_checks,
                 call, result, ids_issued>>

Mint(calls, cap) ==
  \E c \in calls :
    Do("mint", c[1], c[2], mint(Cur, now, c[1], c[2][1]), cap)

Transfer(calls, cap) ==
  \E c \in calls :
    Do("icrc7_transfer", c[1], c[2],
       icrc7_transfer(Cur, icrc7_atomic_batch_transfers, now, c[1], c[2]), cap)

Burn(calls, cap) ==
  \E c \in calls :
    Do("burn", c[1], c[2],
       burn(Cur, icrc7_atomic_batch_transfers, now, c[1], c[2]), cap)

Approve(calls, cap) ==
  \E c \in calls :
    Do("approve", c[1], c[2],
       approve(Cur, icrc7_atomic_batch_transfers, now, c[1], c[2]), cap)

CollectionApprove(calls, cap) ==
  \E c \in calls :
    Do("collection_approve", c[1], c[2],
       collection_approve(Cur, icrc7_atomic_batch_transfers, now, c[1], c[2]), cap)

RevokeApprove(calls, cap) ==
  \E c \in calls :
    Do("revoke_approve", c[1], c[2],
       revoke_approve(Cur, icrc7_atomic_batch_transfers, now, c[1], c[2]), cap)

RevokeCollectionApprove(calls, cap) ==
  \E c \in calls :
    Do("revoke_collection_approve", c[1], c[2],
       revoke_collection_approve(Cur, icrc7_atomic_batch_transfers, now, c[1], c[2]), cap)

TransferFrom(calls, cap) ==
  \E c \in calls :
    Do("transfer_from", c[1], c[2],
       transfer_from(Cur, icrc7_atomic_batch_transfers, now, c[1], c[2]), cap)

\* A clean-up timer fires: the run executes up to its first await.
CleanStart ==
  /\ call \in {Idle, Untraced}
  /\ timers > 0
  /\ Len(tasks) < MaxTasks
  /\ \E rich \in BOOLEAN :
       LET out == clean_start([Cur EXCEPT !.timers = @ - 1], rich) IN
       /\ Commit(out.s)
       /\ tasks' = IF out.task.pc = "done" THEN tasks ELSE Append(tasks, out.task)
  /\ UNCHANGED <<archive_canisters, icrc7_atomic_batch_transfers, overflow_checks, now,
                 call, result>>

RemoveAt(q, i) == SubSeq(q, 1, i - 1) \o SubSeq(q, i + 1, Len(q))

\* create_archive_canister answers a suspended run.
CreateReturn ==
  /\ call \in {Idle, Untraced}
  /\ \E i \in 1..Len(tasks) :
       /\ tasks[i].pc = "create"
       /\ \/ \E canister_id \in ArchiveIds \ DOMAIN archive_canisters :
               LET out == clean_created(Cur, tasks[i], canister_id) IN
               /\ Commit(out.s)
               /\ tasks' = [tasks EXCEPT ![i] = out.task]
               /\ archive_canisters' = Put(archive_canisters, canister_id, <<>>)
          \/ /\ Commit(clean_create_failed(Cur))
             /\ tasks' = RemoveAt(tasks, i)
             /\ archive_canisters' = archive_canisters
  /\ UNCHANGED <<icrc7_atomic_batch_transfers, overflow_checks, now, call, result>>

\* The archive's append_blocks answers a suspended run.
AppendReturn ==
  /\ call \in {Idle, Untraced}
  /\ \E i \in 1..Len(tasks), ok \in BOOLEAN :
       /\ tasks[i].pc = "append"
       /\ LET s1 == clean_appended(Cur, tasks[i], ok) IN
          /\ s1.timers <= MaxTimers
          /\ Commit(s1)
       /\ tasks' = RemoveAt(tasks, i)
       /\ archive_canisters' =
            IF ok
            THEN [archive_canisters EXCEPT ![tasks[i].archive] = @ \o tasks[i].blocks]
            ELSE archive_canisters
  /\ UNCHANGED <<icrc7_atomic_batch_transfers, overflow_checks, now, call, result>>

(***************************************************************************)
(* Inputs.                                                                 *)
(***************************************************************************)
LongMemo == SomeMemo(<<7, 7>>)
Batches(items) == UNION {[1..n -> items] : n \in 0..MaxBatch}
\* Calls by the known accounts, and one by the anonymous principal.
Calls(batches) ==
  (Accounts \X batches) \cup {<<Anonymous, b>> : b \in {x \in batches : Len(x) = 1}}
Single(items) == {<<i>> : i \in items}


MintArgs == [token_id : TokenIds, to : Accounts, memo : {NoneMemo}]
TransferArgs ==
  [token_id : TokenIds, to : Accounts, memo : {NoneMemo}, created_at_time : {NoneNat}]
BurnArgs ==
  [token_id : TokenIds, memo : {NoneMemo}] \cup {[token_id |-> 0, memo |-> LongMemo]}

(***************************************************************************)
(* Spec: the ownership store under batch calls, in a deployment that never *)
(* archives.                                                               *)
(***************************************************************************)
\* A deployment whose log never reaches max_active_records.
SettingLarge ==
  [max_active_records |-> MaxTxn + MaxLog + 2, settle_to_records |-> MaxTxn,
   max_records_in_archive_instance |-> MaxTxn, max_records_to_archive |-> MaxTxn]

Init == InitWith({SettingLarge}, {NoneBool, SomeBool(TRUE)}, {FALSE}, NowStart, Idle)
Next ==
  \/ Mint(Calls(Single(MintArgs)), MaxTxn)
  \/ Transfer(Calls(Batches(TransferArgs)), MaxTxn)
  \/ Burn(Calls(Batches(BurnArgs)), MaxTxn)
  \/ Reply
Spec == Init /\ [][Next]_vars


(***************************************************************************)
(* SpecApproval: the approval subsystem and the transfers that void        *)
(* approvals, under one-item calls.                                        *)
(***************************************************************************)
MintArgs0 == {[token_id |-> 0, to |-> "A", memo |-> NoneMemo]}
TransferArgs0 ==
  [token_id : {0}, to : Accounts, memo : {NoneMemo}, created_at_time : {NoneNat}]
ApproveArgs ==
  [token_id : {0}, spender : Accounts, expires_at : {NoneNat}, memo : {NoneMemo}]
ApproveCollectionArgs == [spender : {"B"}, expires_at : {NoneNat}, memo : {NoneMemo}]
RevokeArgs == [token_id : {0}, spender : {NoneAcc, SomeAcc("B")}, memo : {NoneMemo}]
RevokeCollectionArgs ==
  [spender : {NoneAcc, SomeAcc("B")}, memo : {NoneMemo}, created_at_time : {NoneNat}]
TransferFromArgs ==
  [token_id : {0}, from : {"A"}, to : Accounts, memo : {NoneMemo},
   created_at_time : {NoneNat}]
ByAccounts(batches) == Accounts \X batches

InitApproval == InitWith({SettingLarge}, {NoneBool}, {FALSE}, NowStart, Idle)
NextApproval ==
  \/ Mint(ByAccounts(Single(MintArgs0)), MaxLog)
  \/ Transfer(ByAccounts(Single(TransferArgs0)), MaxLog)
  \/ Approve(ByAccounts(Single(ApproveArgs)), MaxLog)
  \/ CollectionApprove(ByAccounts(Single(ApproveCollectionArgs)), MaxLog)
  \/ RevokeApprove(ByAccounts(Single(RevokeArgs)), MaxLog)
  \/ RevokeCollectionApprove(ByAccounts(Single(RevokeCollectionArgs)), MaxLog)
  \/ TransferFrom(ByAccounts(Single(TransferFromArgs)), MaxLog)
  \/ Reply
SpecApproval == InitApproval /\ [][NextApproval]_vars


(***************************************************************************)
(* SpecArchive: mints, transfers, burns and approvals appending to the log  *)
(* in deployments that archive early into small archives, with the         *)
(* archival runs interleaving at their suspension points.                  *)
(***************************************************************************)
SettingSmall ==
  [max_active_records |-> 2, settle_to_records |-> 1,
   max_records_in_archive_instance |-> 2, max_records_to_archive |-> 1]
\* A deployment whose migrations empty the local log.
SettingDrain ==
  [max_active_records |-> 1, settle_to_records |-> 0,
   max_records_in_archive_instance |-> 2, max_records_to_archive |-> 2]

ByOwner(items) == {<<"A", <<i>>>> : i \in items}
MintArgs1 == {[token_id |-> 0, to |-> "A", memo |-> NoneMemo],
              [token_id |-> 1, to |-> "A", memo |-> NoneMemo]}
TransferArgs1 ==
  {[token_id |-> 0, to |-> "B", memo |-> NoneMemo, created_at_time |-> NoneNat]}
BurnArgs1 == {[token_id |-> 1, memo |-> NoneMemo]}
ApproveArgs1 ==
  {[token_id |-> 1, spender |-> "B", expires_at |-> NoneNat, memo |-> NoneMemo]}

InitArchive == InitWith({SettingSmall, SettingDrain}, {NoneBool}, {FALSE}, NowStart, Untraced)
NextArchive ==
  \/ Mint(ByOwner(MintArgs1), MaxTxn)
  \/ Transfer(ByOwner(TransferArgs1), MaxTxn)
  \/ Burn(ByOwner(BurnArgs1), MaxTxn)
  \/ Approve(ByOwner(ApproveArgs1), MaxTxn)
  \/ CleanStart
  \/ CreateReturn
  \/ AppendReturn
SpecArchive == InitArchive /\ [][NextArchive]_vars


(***************************************************************************)
(* Properties of the certified log (checked under SpecArchive).            *)
(***************************************************************************)
\* Every block with sequence id i that exists anywhere: in the local log or in
\* an archive that acknowledged it.
BlocksAt(i) ==
  {txn_ledger[j].block : j \in {k \in DOMAIN txn_ledger : k = i}}
    \cup UNION {{archive_canisters[a][n] :
                   n \in {m \in 1..Len(archive_canisters[a]) :
                            archive_canisters[a][m].tx.id = i}} :
                a \in DOMAIN archive_canisters}

\* C1: every block i > 0 carries as parent hash the hash of block i-1, and
\* block 0 carries none; no committed block is missing, whether it is still
\* local or was moved to an archive.
ChainIntegrity ==
  \A i \in 0..(txn_count - 1) :
    /\ BlocksAt(i) # {}
    /\ \A b \in BlocksAt(i) :
         IF i = 0 THEN b.phash = NoneHash
         ELSE \A p \in BlocksAt(i - 1) : b.phash = SomeHash(hash_icrc_value(p))

\* A local block whose parent is held only by an archive: the chain crosses
\* the boundary between archived and local blocks.
ChainIntegrityWitness ==
  \E i \in DOMAIN txn_ledger :
    /\ i > 0
    /\ (i - 1) \notin DOMAIN txn_ledger
    /\ BlocksAt(i - 1) # {}
    /\ \A j \in DOMAIN txn_ledger : j >= i

\* C2: the ids returned by the appends are 0, 1, 2, ... in this order: each is
\* one greater than the previous, none skipped, none reused.
SequenceIds ==
  /\ Len(ids_issued) = txn_count
  /\ \A i \in 1..Len(ids_issued) : ids_issued[i] = i - 1

\* Appends on both sides of a completed migration.
SequenceIdsWitness ==
  /\ archive_ledger_info.first_index > 0
  /\ Len(ids_issued) = MaxTxn
  /\ (MaxTxn - 1) \in DOMAIN txn_ledger
  /\ 0 \notin DOMAIN txn_ledger

\* The index sets named by the archive ledger info.
ArchiveRange(a) ==
  LET r == archive_ledger_info.archives[a] IN r.start..(r.start + r.length - 1)
LocalRange == archive_ledger_info.first_index..archive_ledger_info.last_index
LocalRangeHalfOpen ==
  archive_ledger_info.first_index..(archive_ledger_info.last_index - 1)

\* C3: once the log holds a block, the archive ranges and the local range
\* [first_index, last_index] are pairwise disjoint and their union is exactly
\* the set of indices 0 .. txn_count - 1.
RangePartition ==
  txn_count > 0 =>
    /\ \A a \in DOMAIN archive_ledger_info.archives :
         /\ ArchiveRange(a) \cap LocalRange = {}
         /\ \A b \in DOMAIN archive_ledger_info.archives :
              a # b => ArchiveRange(a) \cap ArchiveRange(b) = {}
    /\ LocalRange \cup UNION {ArchiveRange(a) : a \in DOMAIN archive_ledger_info.archives}
         = 0..(txn_count - 1)

\* The same partition reading last_index as one past the last local index.
RangePartitionHalfOpen ==
  /\ \A a \in DOMAIN archive_ledger_info.archives :
       /\ ArchiveRange(a) \cap LocalRangeHalfOpen = {}
       /\ \A b \in DOMAIN archive_ledger_info.archives :
            a # b => ArchiveRange(a) \cap ArchiveRange(b) = {}
  /\ LocalRangeHalfOpen
       \cup UNION {ArchiveRange(a) : a \in DOMAIN archive_ledger_info.archives}
       = 0..(txn_count - 1)

\* C4: an archival run that starts while another run is suspended at a remote
\* call, with is_cleaning set, does nothing: it suspends at no remote call and
\* leaves the local log, first_index and the archive ranges as they are.
SecondRunIsNoOp ==
  [][(/\ timers' < timers
      /\ Len(tasks) > 0
      /\ archive_ledger_info.is_cleaning)
     => (/\ tasks' = tasks
         /\ txn_ledger' = txn_ledger
         /\ archive_ledger_info'.first_index = archive_ledger_info.first_index
         /\ archive_ledger_info'.archives = archive_ledger_info.archives)]_vars


(***************************************************************************)
(* Properties of the batch calls on the ownership store (checked under     *)
(* Spec).                                                                  *)
(***************************************************************************)
\* The state one call may change.
StoreVars ==
  <<tokens, token_approvals, collection_approvals, txn_ledger, txn_count, next_token_id,
    icrc7_total_supply, archive_ledger_info, tree, timers, ids_issued>>

\* The verdict of the validation of each item of call c in state s.
ItemValidation(c, s, t) ==
  [i \in 1..Len(c.args) |->
     CASE c.op = "icrc7_transfer" -> mock_transfer(s, t, c.caller, c.args[i])
       [] c.op = "burn" -> mock_burn(s, c.caller, c.args[i])
       [] c.op = "approve" -> mock_approve(s, c.caller, c.args[i])
       [] c.op = "collection_approve" ->
            mock_collection_approve(s, c.caller, c.args[i], t)
       [] c.op = "revoke_approve" -> mock_revoke_approve(s, c.caller, c.args[i])
       [] c.op = "revoke_collection_approve" ->
            mock_revoke_collection_approve(s, c.caller, c.args[i], t)
       [] c.op = "transfer_from" -> mock_transfer_from(s, c.caller, c.args[i], t)]
ValidItems(v) == {i \in 1..Len(v) : v[i] = Valid}

\* What call c returns when submitted in state s.
ResultOf(c, s, atomic, t) ==
  IF c.op = "icrc7_transfer" THEN icrc7_transfer(s, atomic, t, c.caller, c.args).res
  ELSE burn(s, atomic, t, c.caller, c.args).res

\* A transfer or burn call is submitted in this step.
BatchCall == call = Idle /\ call'.op \in {"icrc7_transfer", "burn"}

\* C5: with the atomic flag set, a batch with an item that fails validation
\* commits nothing (tokens, approvals, log, counter and tip stay as they are),
\* it reports an error, and submitting the same batch again returns the same.
AtomicBatch ==
  [][(/\ BatchCall
      /\ icrc7_atomic_batch_transfers = SomeBool(TRUE)
      /\ ValidItems(ItemValidation(call', Cur, now)) # 1..Len(call'.args))
     => (/\ UNCHANGED StoreVars
         /\ AnyErr(result')
         /\ ItemValidation(call', Cur', now') = ItemValidation(call', Cur, now)
         /\ ResultOf(call', Cur', icrc7_atomic_batch_transfers', now') = result')]_vars

\* An atomic transfer batch whose first item is valid and whose second is not
\* was answered with an error; the first item is still valid, so uncommitted.
AtomicBatchWitness ==
  /\ icrc7_atomic_batch_transfers = SomeBool(TRUE)
  /\ call.op = "icrc7_transfer"
  /\ Len(call.args) = 2
  /\ mock_transfer(Cur, now, call.caller, call.args[1]) = Valid
  /\ mock_transfer(Cur, now, call.caller, call.args[2]) # Valid
  /\ AnyErr(result)

\* The number of valid items among the first i - 1.
Rank(v, i) == Cardinality({j \in ValidItems(v) : j < i})

\* C6: without the atomic flag, exactly the items that passed validation are
\* committed: each appends one log entry for its token, in submission order,
\* and no token changes hands but through a valid item.
NonAtomicCommitsValidItems ==
  [][(/\ BatchCall
      /\ icrc7_atomic_batch_transfers # SomeBool(TRUE))
     => LET v == ItemValidation(call', Cur, now) IN
        /\ txn_count' = txn_count + Cardinality(ValidItems(v))
        /\ \A i \in ValidItems(v) :
             /\ (txn_count + Rank(v, i)) \in DOMAIN txn_ledger'
             /\ txn_ledger'[txn_count + Rank(v, i)].tid = call'.args[i].token_id
        /\ \A t \in DOMAIN tokens :
             tokens'[t] # tokens[t]
               => \E i \in ValidItems(v) : call'.args[i].token_id = t]_vars

\* C10: a transfer of a token by an account that does not own it (its previous
\* owner included) fails with Unauthorized and changes nothing; a burn of the
\* token by its owner succeeds: the record stays, owned by the burn account,
\* and the balance of the former owner no longer counts it.
LifeCycle ==
  [][(call = Idle /\ Len(call'.args) = 1 /\ call'.caller \in Accounts)
     => LET arg == call'.args[1]
            caller == call'.caller
        IN /\ (/\ call'.op = "icrc7_transfer"
               /\ arg.token_id \in DOMAIN tokens
               /\ tokens[arg.token_id] # caller
               /\ arg.to # caller)
              => (result' = <<ErrRes("Unauthorized")>> /\ UNCHANGED StoreVars)
           /\ (/\ call'.op = "burn"
               /\ arg.token_id \in DOMAIN tokens
               /\ tokens[arg.token_id] = caller
               /\ ~arg.memo.some)
              => (/\ result'[1] = OkRes(txn_count)
                  /\ tokens' = [tokens EXCEPT ![arg.token_id] = BurnAccount]
                  /\ icrc7_balance_of(Cur', caller) = icrc7_balance_of(Cur, caller) - 1
                  /\ txn_count' = txn_count + 1)]_vars

\* The whole life cycle happened: the log is mint, transfer to the second
\* owner, burn by the second owner, and the token rests with the burn account.
LifeCycleWitness ==
  /\ txn_count = 3
  /\ DOMAIN txn_ledger = {0, 1, 2}
  /\ txn_ledger[0].op = "7mint"
  /\ txn_ledger[1].op = TRANSACTION_TRANSFER_OP
  /\ txn_ledger[2].op = "7burn"
  /\ txn_ledger[1].tid = txn_ledger[0].tid
  /\ txn_ledger[2].tid = txn_ledger[0].tid
  /\ txn_ledger[1].from = txn_ledger[0].to
  /\ txn_ledger[2].from = txn_ledger[1].to
  /\ tokens[txn_ledger[0].tid] = BurnAccount
  /\ icrc7_balance_of(Cur, txn_ledger[1].to.v) = 0
  /\ call.op = "burn"
  /\ result[1] = OkRes(2)


(***************************************************************************)
(* SpecDedup: transfers that carry created_at_time, with time passing.     *)
(***************************************************************************)
Stamps == {NoneNat, SomeNat(NowStart)}
TransferArgsT ==
  [token_id : {0}, to : Accounts, memo : {NoneMemo}, created_at_time : Stamps]
TransferFromArgsT ==
  [token_id : {0}, from : {"A"}, to : {"B"}, memo : {NoneMemo}, created_at_time : Stamps]

InitDedup == InitWith({SettingLarge}, {NoneBool}, {FALSE, TRUE}, NowStart, Idle)
NextDedup ==
  \/ Mint(ByAccounts(Single(MintArgs0)), MaxTxn)
  \/ Transfer(ByAccounts(Single(TransferArgsT)), MaxTxn)
  \/ CollectionApprove(ByAccounts(Single(ApproveCollectionArgs)), MaxTxn)
  \/ TransferFrom(ByAccounts(Single(TransferFromArgsT)), MaxTxn)
  \/ Tick
  \/ Reply
SpecDedup == InitDedup /\ [][NextDedup]_vars

\* created_at_time lies inside [now - tx_window - drift, now + drift].
InWindow(stamp, t) ==
  /\ stamp >= t - UnwrapOr(tx_window, DEFAULT_TX_WINDOW)
                - UnwrapOr(permitted_drift, DEFAULT_PERMITTED_DRIFT)
  /\ stamp <= t + UnwrapOr(permitted_drift, DEFAULT_PERMITTED_DRIFT)

\* The logged transfers with the token, sender, recipient, memo and creation
\* time of the submitted one.
EarlierSubmissions(sender, arg) ==
  {i \in DOMAIN txn_ledger :
     /\ txn_ledger[i].op \in {TRANSACTION_TRANSFER_OP, TRANSACTION_TRANSFER_FROM_OP}
     /\ txn_ledger[i].tid = arg.token_id
     /\ txn_ledger[i].from = SomeAcc(sender)
     /\ txn_ledger[i].to = SomeAcc(arg.to)
     /\ txn_ledger[i].memo = arg.memo
     /\ SomeNat(txn_ledger[i].ts) = arg.created_at_time}

\* C7: a transfer submitted with created_at_time inside the window, when the
\* log already holds a transfer with the same token, sender, recipient, memo
\* and creation time, is answered Duplicate with the sequence id of that
\* earlier transfer, and commits nothing.
DuplicateTransfer ==
  [][(/\ call = Idle
      /\ call'.op \in {"icrc7_transfer", "transfer_from"}
      /\ call'.args[1].created_at_time.some
      /\ InWindow(call'.args[1].created_at_time.v, now)
      /\ EarlierSubmissions(IF call'.op = "icrc7_transfer" THEN call'.caller
                            ELSE call'.args[1].from, call'.args[1]) # {})
     => (/\ result'[1].e = "Duplicate"
         /\ result'[1].id \in
              EarlierSubmissions(IF call'.op = "icrc7_transfer" THEN call'.caller
                                 ELSE call'.args[1].from, call'.args[1])
         /\ UNCHANGED StoreVars)]_vars


(***************************************************************************)
(* Properties of the approval store (checked under SpecApproval).          *)
(***************************************************************************)
\* C8: after a successful transfer or transfer_from of a token, the
\* token-approval store holds no record for that token.
TransferWipesApprovals ==
  [][(/\ call = Idle
      /\ call'.op \in {"icrc7_transfer", "transfer_from"})
     => \A i \in 1..Len(call'.args) :
          (i <= Len(result') /\ result'[i].k = "Ok")
            => call'.args[i].token_id \notin DOMAIN token_approvals']_vars

\* C9: when the two latest log entries are the revocation of all approvals of
\* a token and then a transfer of that token, no (owner, spender) pair is
\* approved for the token.
RevokeThenTransferClears ==
  (/\ txn_count >= 2
   /\ {txn_count - 2, txn_count - 1} \subseteq DOMAIN txn_ledger
   /\ txn_ledger[txn_count - 2].op = "37revoke"
   /\ txn_ledger[txn_count - 2].to = NoneAcc
   /\ txn_ledger[txn_count - 1].op \in
        {TRANSACTION_TRANSFER_OP, TRANSACTION_TRANSFER_FROM_OP}
   /\ txn_ledger[txn_count - 1].tid = txn_ledger[txn_count - 2].tid)
  => \A owner \in Accounts, spender \in Accounts :
       ~is_approved_by_token(Cur, txn_ledger[txn_count - 1].tid, owner, spender, now)


(***************************************************************************)
(* SpecBatch: every batch entry point under batches of zero to             *)
(* MaxBatch + 1 items, by the owner, a second account and the anonymous    *)
(* principal, without the atomic flag.                                     *)
(***************************************************************************)
\* Batches of up to MaxBatch items, and the batches of MaxBatch + 1 equal items.
BatchesAndLong(items) ==
  Batches(items) \cup {[i \in 1..(MaxBatch + 1) |-> x] : x \in items}
ByAnyone(batches) == (Accounts \cup {Anonymous}) \X batches

TransferArgsB ==
  [token_id : TokenIds, to : {"B"}, memo : {NoneMemo}, created_at_time : {NoneNat}]
BurnArgsB == [token_id : TokenIds, memo : {NoneMemo}]
ApproveArgsB ==
  [token_id : {0}, spender : Accounts, expires_at : {NoneNat}, memo : {NoneMemo}]
ApproveCollectionArgsB == [spender : Accounts, expires_at : {NoneNat}, memo : {NoneMemo}]
RevokeArgsB == [token_id : {0}, spender : {NoneAcc}, memo : {NoneMemo, LongMemo}]
RevokeCollectionArgsB ==
  [spender : {NoneAcc, SomeAcc("A")}, memo : {NoneMemo}, created_at_time : {NoneNat}]
TransferFromArgsB ==
  [token_id : {0}, from : {"A"}, to : Accounts, memo : {NoneMemo},
   created_at_time : {NoneNat}]

InitBatch == InitWith({SettingLarge}, {NoneBool}, {FALSE}, NowStart, Idle)
NextBatch ==
  \/ Mint(ByOwner(MintArgs0), MaxTxn)
  \/ Transfer(ByAnyone(BatchesAndLong(TransferArgsB)), MaxTxn)
  \/ Burn(ByAnyone(BatchesAndLong(BurnArgsB)), MaxTxn)
  \/ Approve(ByAnyone(BatchesAndLong(ApproveArgsB)), MaxTxn)
  \/ CollectionApprove(ByAnyone(BatchesAndLong(ApproveCollectionArgsB)), MaxTxn)
  \/ RevokeApprove(ByAnyone(BatchesAndLong(RevokeArgsB)), MaxTxn)
  \/ RevokeCollectionApprove(ByAnyone(BatchesAndLong(RevokeCollectionArgsB)), MaxTxn)
  \/ TransferFrom(ByAnyone(BatchesAndLong(TransferFromArgsB)), MaxTxn)
  \/ Reply
SpecBatch == InitBatch /\ [][NextBatch]_vars

\* The batch entry points.
BatchOps ==
  {"icrc7_transfer", "burn", "approve", "collection_approve", "revoke_approve",
   "revoke_collection_approve", "transfer_from"}
\* The configured ceiling on the length of an update batch.
MaxUpdateBatch == UnwrapOr(icrc7_max_update_batch_size, DEFAULT_MAX_UPDATE_BATCH_SIZE)

\* C11: without the atomic flag, in a batch that passes the batch-level
\* preconditions, the first item that passes validation is committed (the log
\* grows) even when items before it failed validation, for every batch
\* operation.
ErrorsSpareSiblings ==
  [][(/\ call = Idle
      /\ call'.op \in BatchOps
      /\ icrc7_atomic_batch_transfers # SomeBool(TRUE)
      /\ call'.caller # Anonymous
      /\ Len(call'.args) \in 1..MaxUpdateBatch)
     => LET v == ItemValidation(call', Cur, now) IN
        \A j \in ValidItems(v) :
          (/\ j > 1
           /\ \A i \in 1..(j - 1) : IsErr(v[i]))
          => (/\ txn_count' > txn_count
              /\ txn_count \in DOMAIN txn_ledger')]_vars

\* C12: a batch call with no items, by the anonymous principal, or with more
\* items than the configured maximum changes nothing, and every slot of the
\* vector it returns holds a generic error.
BatchPreconditions ==
  [][(/\ call = Idle
      /\ call'.op \in BatchOps
      /\ \/ Len(call'.args) = 0
         \/ call'.caller = Anonymous
         \/ Len(call'.args) > MaxUpdateBatch)
     => (/\ UNCHANGED StoreVars
         /\ Len(result') >= 1
         /\ \A i \in 1..Len(result') :
              /\ IsErr(result'[i])
              /\ result'[i].e \in {"GenericBatchError", "GenericError"})]_vars


(***************************************************************************)
(* Properties of the archival runs (checked under SpecArchive and          *)
(* SpecFloor).                                                             *)
(***************************************************************************)
\* A deployment that keeps one entry local and may move two per run.
SettingFloor ==
  [max_active_records |-> 1, settle_to_records |-> 1,
   max_records_in_archive_instance |-> 2, max_records_to_archive |-> 2]
InitFloor == InitWith({SettingFloor}, {NoneBool}, {FALSE}, NowStart, Untraced)
SpecFloor == InitFloor /\ [][NextArchive]_vars

MinOf(S) == CHOOSE x \in S : \A y \in S : x <= y
\* The k lowest elements of a set of ids.
Lowest(S, k) == {i \in S : Cardinality({j \in S : j < i}) < k}
LocalSize == Cardinality(DOMAIN txn_ledger)

\* The run suspended as tasks[i] resumes in this step because the archive
\* acknowledged its blocks.
AppendAcknowledged(i) ==
  /\ tasks[i].pc = "append"
  /\ tasks' = RemoveAt(tasks, i)
  /\ archive_canisters' # archive_canisters
\* The run suspended as tasks[i] resumes in this step because the call to the
\* archive, which carried blocks, failed.
AppendFailed(i) ==
  /\ tasks[i].pc = "append"
  /\ tasks[i].ids # <<>>
  /\ tasks' = RemoveAt(tasks, i)
  /\ archive_canisters' = archive_canisters

\* C13: a run whose blocks the archive acknowledged migrates exactly
\* k = min(local size read by the run - settle_to_records, remaining capacity
\* of the target archive, max_records_to_archive) entries: the k lowest local
\* ids leave the local log, first_index and the target's range length grow by
\* k, and last_index, latest_hash and the counter stay.
MigrationAccounting ==
  [][\A i \in 1..Len(tasks) :
       AppendAcknowledged(i)
       => LET task == tasks[i]
              k == Len(task.ids)
              setting == archive_ledger_info.setting
              range == archive_ledger_info.archives[task.archive]
          IN /\ k = MinOf({task.txn_ledger_size - setting.settle_to_records,
                           setting.max_records_in_archive_instance - range.length,
                           setting.max_records_to_archive})
             /\ DOMAIN txn_ledger' = DOMAIN txn_ledger \ Lowest(DOMAIN txn_ledger, k)
             /\ LocalSize' = LocalSize - k
             /\ archive_ledger_info'.first_index = archive_ledger_info.first_index + k
             /\ archive_ledger_info'.archives[task.archive].length = range.length + k
             /\ archive_ledger_info'.last_index = archive_ledger_info.last_index
             /\ archive_ledger_info'.latest_hash = archive_ledger_info.latest_hash
             /\ txn_count' = txn_count]_vars

\* C14: when the call to the archive fails, the run clears is_cleaning and
\* leaves the local log, first_index and the archive ranges as they are; a run
\* that starts next and reaches the selection selects again every entry of the
\* failed run that is still local.
IngestionFailure ==
  [][\A i \in 1..Len(tasks) :
       AppendFailed(i)
       => /\ ~archive_ledger_info'.is_cleaning
          /\ txn_ledger' = txn_ledger
          /\ archive_ledger_info'.first_index = archive_ledger_info.first_index
          /\ archive_ledger_info'.archives = archive_ledger_info.archives
          /\ LET next == clean_start(Cur', TRUE).task
             IN next.pc = "append"
                => \A n \in 1..Len(tasks[i].ids) :
                     tasks[i].ids[n] \in DOMAIN txn_ledger
                       => \E q \in 1..Len(next.ids) : next.ids[q] = tasks[i].ids[n]]_vars

\* C15: no step takes the local log from at least settle_to_records entries
\* to fewer, and a run that starts with fewer local entries than
\* settle_to_records changes nothing.
SettleFloor ==
  [][/\ LocalSize >= archive_ledger_info.setting.settle_to_records
        => LocalSize' >= archive_ledger_info.setting.settle_to_records
     /\ (timers' < timers /\ LocalSize < archive_ledger_info.setting.settle_to_records)
        => (/\ tasks' = tasks
            /\ txn_ledger' = txn_ledger
            /\ archive_ledger_info' = archive_ledger_info
            /\ archive_canisters' = archive_canisters)]_vars

\* C17: once a block is committed, the tip is the latest block: last_index is
\* its sequence id, latest_hash is its hash, and the two certified leaves are
\* the leaf hashes of that index and that hash.
TipIsLatestBlock ==
  txn_count > 0 =>
    \A b \in BlocksAt(txn_count - 1) :
      /\ archive_ledger_info.last_index = txn_count - 1
      /\ archive_ledger_info.latest_hash = SomeHash(hash_icrc_value(b))
      /\ tree = Put(Put(EmptyMap, "last_block_index", leaf_hash(txn_count - 1)),
                    "last_block_hash", leaf_hash(hash_icrc_value(b)))

\* C20: an append arms the clean-up timer if and only if the local log holds
\* more than max_active_records entries after it.
ScheduleOnOverflow ==
  [][txn_count' = txn_count + 1
     => (timers' = timers + 1
           <=> LocalSize' > archive_ledger_info.setting.max_active_records)]_vars


(***************************************************************************)
(* Block queries: icrc3_get_blocks over the local log and the archive      *)
(* ranges (checked under SpecArchive).                                     *)
(***************************************************************************)
\* a - b on u128 in a build with (checks) or without overflow checks.
SubU128(a, b, checks) ==
  IF a >= b THEN [panic |-> FALSE, v |-> a - b]
  ELSE [panic |-> checks, v |-> (a - b + U128) % U128]

\* The first loop of icrc3_get_blocks for one requested span: the ids of the
\* local blocks pushed, or a trap when an id it reads is not in the local log.
get_blocks_local(s, arg) ==
  LET local_ledger_length == Cardinality(DOMAIN s.txn_ledger)
      local_first_index == s.ali.first_index
      local_last_index == s.ali.last_index
      start == IF arg.start <= local_first_index THEN 0
               ELSE arg.start - local_first_index
      end == IF local_ledger_length = 0 THEN 0
             ELSE IF arg.start + arg.length >= local_first_index
             THEN local_ledger_length - 1
             ELSE local_last_index - local_first_index
                    - (local_last_index - (arg.start + arg.length))
      items == {this_item \in start..end : this_item < local_ledger_length}
  IN IF arg.start + arg.length > local_first_index /\ local_ledger_length > 0
     THEN [trap |-> \E this_item \in start..end :
                      (local_first_index + this_item) \notin DOMAIN s.txn_ledger,
           ids |-> [n \in 1..Cardinality(items) |-> local_first_index + start + n - 1]]
     ELSE [trap |-> FALSE, ids |-> <<>>]

\* The second loop of icrc3_get_blocks for one requested span, over the
\* archives in key order from position n of keys. acc = [trap, archived].
RECURSIVE get_blocks_archived(_, _, _, _, _, _, _)
get_blocks_archived(s, arg, keys, n, seeking, acc, checks) ==
  IF n > Len(keys) \/ acc.trap THEN acc
  ELSE LET key == keys[n]
           tran_range == s.ali.archives[key]
           range_end == SubU128(tran_range.start + tran_range.length, 1, checks)
           arg_end == SubU128(arg.start + arg.length, 1, checks)
           overlap_start == IF seeking > tran_range.start THEN seeking
                            ELSE tran_range.start
           overlap_end == IF arg_end.v < range_end.v THEN arg_end.v ELSE range_end.v
           len0 == SubU128(overlap_end, overlap_start, checks)
           found == [start |-> overlap_start, length |-> (len0.v + 1) % U128]
           pushed == IF key \in DOMAIN acc.archived
                     THEN [acc EXCEPT !.archived[key] = Append(@, found)]
                     ELSE [acc EXCEPT !.archived = Put(@, key, <<found>>)]
       IN IF range_end.panic THEN [acc EXCEPT !.trap = TRUE]
          ELSE IF seeking > range_end.v \/ arg.start + arg.length <= tran_range.start
          THEN get_blocks_archived(s, arg, keys, n + 1, seeking, acc, checks)
          ELSE IF arg_end.panic \/ len0.panic THEN [acc EXCEPT !.trap = TRUE]
          ELSE IF overlap_end = arg_end.v THEN pushed
          ELSE get_blocks_archived(s, arg, keys, n + 1, (overlap_end + 1) % U128,
                                   pushed, checks)

RECURSIVE get_blocks_local_all(_, _, _, _)
get_blocks_local_all(s, args, n, acc) ==
  IF n > Len(args) \/ acc.trap THEN acc
  ELSE LET l == get_blocks_local(s, args[n])
       IN get_blocks_local_all(s, args, n + 1,
                               [trap |-> l.trap, ids |-> acc.ids \o l.ids])

RECURSIVE get_blocks_archived_all(_, _, _, _, _)
get_blocks_archived_all(s, args, n, acc, checks) ==
  IF n > Len(args) \/ acc.trap THEN acc
  ELSE get_blocks_archived_all(s, args, n + 1,
         get_blocks_archived(s, args[n], SetToSeq(DOMAIN s.ali.archives), 1,
                             args[n].start, acc, checks), checks)

\* icrc3_get_blocks: the ids of the blocks returned and, per archive, the
\* subranges of its redirect descriptor; trap when the query panics.
icrc3_get_blocks(s, args, checks) ==
  LET local == get_blocks_local_all(s, args, 1, [trap |-> FALSE, ids |-> <<>>])
      archived == get_blocks_archived_all(s, args, 1,
                    [trap |-> FALSE, archived |-> EmptyMap], checks)
  IN [trap |-> local.trap \/ archived.trap, blocks |-> local.ids,
      archived_blocks |-> archived.archived]

\* The requests: one span, or two disjoint spans, of one to MaxTxn indices.
Spans == [start : 0..(MaxTxn - 1), length : 1..MaxTxn]
SpanSet(a) == a.start..(a.start + a.length - 1)
GetBlocksArgs ==
  {<<a>> : a \in Spans}
    \cup {p \in {<<a, b>> : a \in Spans, b \in Spans} :
            SpanSet(p[1]) \cap SpanSet(p[2]) = {}}

Requested(args) == UNION {SpanSet(args[n]) : n \in 1..Len(args)}
ArchivedIndices ==
  UNION {ArchiveRange(a) : a \in DOMAIN archive_ledger_info.archives}
RECURSIVE SumLengths(_)
SumLengths(ranges) ==
  IF ranges = <<>> THEN 0 ELSE Head(ranges).length + SumLengths(Tail(ranges))
RECURSIVE SumOver(_, _)
SumOver(f, S) ==
  IF S = {} THEN 0
  ELSE LET x == CHOOSE y \in S : TRUE IN SumLengths(f[x]) + SumOver(f, S \ {x})

\* C16: for a request that covers archived indices and local indices, in
\* either build, get_blocks returns the blocks of exactly the requested local
\* indices and one descriptor for each archive whose range meets the request;
\* the subranges of the descriptors are disjoint, lie inside the request, and
\* their lengths sum to the number of requested archived indices.
GetBlocksSplit ==
  \A args \in GetBlocksArgs, checks \in BOOLEAN :
    (/\ Requested(args) \cap ArchivedIndices # {}
     /\ Requested(args) \cap DOMAIN txn_ledger # {})
    => LET r == icrc3_get_blocks(Cur, args, checks)
           subs == UNION {{<<a, n>> : n \in 1..Len(r.archived_blocks[a])} :
                          a \in DOMAIN r.archived_blocks}
           Sub(x) == SpanSet(r.archived_blocks[x[1]][x[2]])
       IN /\ ~r.trap
          /\ {r.blocks[n] : n \in 1..Len(r.blocks)} = Requested(args) \cap DOMAIN txn_ledger
          /\ DOMAIN r.archived_blocks =
               {a \in DOMAIN archive_ledger_info.archives :
                  ArchiveRange(a) \cap Requested(args) # {}}
          /\ \A x \in subs :
               /\ Sub(x) \subseteq Requested(args)
               /\ \A y \in subs : x # y => Sub(x) \cap Sub(y) = {}
          /\ SumOver(r.archived_blocks, DOMAIN r.archived_blocks)
               = Cardinality(Requested(args) \cap ArchivedIndices)


(***************************************************************************)
(* SpecMint: mints by every caller, up to the greatest token id, in both   *)
(* builds.                                                                 *)
(***************************************************************************)
MintArgsM == [token_id : {0, 1, U128 - 1}, to : {"A"}, memo : {NoneMemo, LongMemo}]

InitMint == InitWith({SettingLarge}, {NoneBool}, {FALSE, TRUE}, NowStart, Idle)
NextMint ==
  \/ Mint(ByAnyone(Single(MintArgsM)), MaxTxn)
  \/ Burn(ByAccounts(Single(BurnArgsB)), MaxTxn)
  \/ Reply
SpecMint == InitMint /\ [][NextMint]_vars

\* C18: a mint succeeds exactly when the caller is the minting authority, the
\* supply cap is not reached, the id is at least next_token_id and not
\* present, and the memo is within the ceiling; a rejected mint changes
\* nothing; the id of a successful mint is greater than every id minted
\* before.
MintRules ==
  [][(call = Idle /\ call'.op = "mint")
     => LET arg == call'.args[1]
            allowed ==
              /\ SomeAcc(call'.caller) = minting_authority
              /\ ~(icrc7_supply_cap.some /\ icrc7_total_supply >= icrc7_supply_cap.v)
              /\ arg.token_id >= next_token_id
              /\ arg.token_id \notin DOMAIN tokens
              /\ ~MemoTooLong(arg.memo)
        IN /\ result'[1].k = "Ok" <=> allowed
           /\ result'[1].k # "Ok" => UNCHANGED StoreVars
           /\ result'[1].k = "Ok" => \A t \in DOMAIN tokens : arg.token_id > t]_vars


(***************************************************************************)
(* SpecClock: the calls of SpecDedup from time 0 on.                       *)
(***************************************************************************)
InitClock == InitWith({SettingLarge}, {NoneBool}, {FALSE, TRUE}, 0, Idle)
SpecClock == InitClock /\ [][NextDedup]_vars

\* The creation times submitted: up to past the future end of the window.
StampValues == 0..(NowStart + MaxTicks + DEFAULT_PERMITTED_DRIFT + 1)

\* C19: at every time, the validation of a transfer and of a transfer_from
\* carrying created_at_time t answers TooOld exactly when
\* t < now - tx_window - permitted_drift and CreatedInFuture exactly when
\* t > now + permitted_drift.
TimeWindowVerdicts ==
  \A t \in StampValues :
    LET v == mock_transfer(Cur, now, "A",
               [token_id |-> 0, to |-> "B", memo |-> NoneMemo,
                created_at_time |-> SomeNat(t)])
        vf == mock_transfer_from(Cur, "B",
                [token_id |-> 0, from |-> "A", to |-> "A", memo |-> NoneMemo,
                 created_at_time |-> SomeNat(t)], now)
        past == now - UnwrapOr(tx_window, DEFAULT_TX_WINDOW)
                    - UnwrapOr(permitted_drift, DEFAULT_PERMITTED_DRIFT)
        future == now + UnwrapOr(permitted_drift, DEFAULT_PERMITTED_DRIFT)
    IN /\ v = ErrRes("TooOld") <=> t < past
       /\ v = ErrRes("CreatedInFuture") <=> t > future
       /\ vf = ErrRes("TooOld") <=> t < past
       /\ vf = ErrRes("CreatedInFuture") <=> t > future


(***************************************************************************)
(* Immutability of the local log (checked under SpecArchive).              *)
(***************************************************************************)
\* C21: a record written to the local log is never modified, and it leaves
\* the local log only in the step in which an archival run resumes after the
\* archive acknowledged a slice that contains it, the archive then holding
\* its block.
LogIsAppendOnly ==
  [][\A i \in DOMAIN txn_ledger :
       IF i \in DOMAIN txn_ledger'
       THEN txn_ledger'[i] = txn_ledger[i]
       ELSE \E k \in 1..Len(tasks) :
              /\ AppendAcknowledged(k)
              /\ \E n \in 1..Len(tasks[k].ids) : tasks[k].ids[n] = i
              /\ \E n \in 1..Len(archive_canisters'[tasks[k].archive]) :
                    archive_canisters'[tasks[k].archive][n] = txn_ledger[i].block]_vars

\* A record was migrated out of the local log while later records stayed.
LogIsAppendOnlyWitness ==
  /\ DOMAIN txn_ledger # {}
  /\ \E i \in 0..(txn_count - 1) :
       /\ i \notin DOMAIN txn_ledger
       /\ \E a \in DOMAIN archive_canisters :
            \E n \in 1..Len(archive_canisters[a]) : archive_canisters[a][n].tx.id = i


(***************************************************************************)
(* Token listings: icrc7_tokens and icrc7_tokens_of (checked under Spec).  *)
(***************************************************************************)
MaxTake == 3
DEFAULT_TAKE_VALUE == 32
DEFAULT_MAX_TAKE_VALUE == 32
\* The configured ceiling of `take` (State::default leaves it None, and then
\* icrc7_tokens traps on every call).
icrc7_max_take_value == SomeNat(MaxTake)

\* list.iter().position(|id| *id == prev): the 0-based index, or -1 for None.
Position(list, prev) ==
  IF \E n \in 1..Len(list) : list[n] = prev
  THEN (CHOOSE n \in 1..Len(list) : list[n] = prev) - 1
  ELSE -1
\* list.iter().skip(index).take(take).collect()
SkipTake(list, index, take) ==
  SubSeq(list, index + 1, IF index + take < Len(list) THEN index + take ELSE Len(list))

\* icrc7_tokens(prev, take): [trap, list].
icrc7_tokens(s, prev, take) ==
  LET take0 == UnwrapOr(take, DEFAULT_TAKE_VALUE)
      list == SetToSeq(DOMAIN s.tokens)
      take1 == IF take0 < Len(list) THEN take0 ELSE Len(list)
  IN IF ~icrc7_max_take_value.some THEN [trap |-> TRUE, list |-> <<>>]
     ELSE IF take0 > icrc7_max_take_value.v THEN [trap |-> TRUE, list |-> <<>>]
     ELSE IF prev.some
     THEN IF Position(list, prev.v) = -1 THEN [trap |-> FALSE, list |-> <<>>]
          ELSE [trap |-> FALSE, list |-> SkipTake(list, Position(list, prev.v), take1)]
     ELSE [trap |-> FALSE, list |-> SubSeq(list, 1, take1)]

\* icrc7_tokens_of(account, prev, take): [trap, list]; the slice
\* owned_tokens[0..=take] panics when take is not below the length.
icrc7_tokens_of(s, account, prev, take) ==
  LET take0 == UnwrapOr(take, DEFAULT_TAKE_VALUE)
      owned_tokens == SetToSeq({id \in DOMAIN s.tokens : s.tokens[id] = account})
  IN IF take0 > DEFAULT_MAX_TAKE_VALUE THEN [trap |-> TRUE, list |-> <<>>]
     ELSE IF prev.some
     THEN IF Position(owned_tokens, prev.v) = -1 THEN [trap |-> FALSE, list |-> <<>>]
          ELSE [trap |-> FALSE,
                list |-> SkipTake(owned_tokens, Position(owned_tokens, prev.v), take0)]
     ELSE IF take0 >= Len(owned_tokens) THEN [trap |-> TRUE, list |-> <<>>]
     ELSE [trap |-> FALSE, list |-> SubSeq(owned_tokens, 1, take0 + 1)]

\* The page after cursor prev: the `take` lowest ids above it, ascending.
PageAfter(ids, prev, take) ==
  SetToSeq(Lowest({i \in ids : prev.some => i > prev.v}, take))
Cursors == {NoneNat} \cup {SomeNat(i) : i \in TokenIds}
Takes == {SomeNat(n) : n \in 0..MaxTake}

\* C22: icrc7_tokens and icrc7_tokens_of do not fail and return, in ascending
\* order, the ids strictly above the cursor, `take` of them or all of them
\* when fewer exist.
TokenPages ==
  \A prev \in Cursors, take \in Takes :
    /\ icrc7_tokens(Cur, prev, take) =
         [trap |-> FALSE, list |-> PageAfter(DOMAIN tokens, prev, take.v)]
    /\ \A account \in Accounts \cup {BurnAccount} :
         icrc7_tokens_of(Cur, account, prev, take) =
           [trap |-> FALSE,
            list |-> PageAfter({id \in DOMAIN tokens : tokens[id] = account},
                               prev, take.v)]


(***************************************************************************)
(* Archive provisioning and follow-up runs (checked under SpecArchive).    *)
(***************************************************************************)
\* A run starting in state s passes the size checks and finds no archive with
\* room: none exists, or the last one is full.
NeedsArchive(s) ==
  LET setting == s.ali.setting
      size == Cardinality(DOMAIN s.txn_ledger)
  IN /\ size >= setting.max_active_records
     /\ size >= setting.settle_to_records
     /\ \/ DOMAIN s.ali.archives = {}
        \/ s.ali.archives[LastArchive(s.ali.archives)].length
             >= setting.max_records_in_archive_instance
\* Where the ranges of the archives end: 0 without archives.
RangesEnd(archives) ==
  IF DOMAIN archives = {} THEN 0
  ELSE LET ends == {archives[a].start + archives[a].length : a \in DOMAIN archives}
       IN CHOOSE e \in ends : \A f \in ends : f <= e

\* C23: a run that needs a new archive while the cycle balance does not
\* exceed twice archive_cycles makes no remote call, leaves the archive
\* ranges, first_index and the local log as they are and ends with
\* is_cleaning false; an archive is requested only with the larger balance,
\* and the range of a new archive starts where the ranges before it end.
ProvisioningGate ==
  [][/\ NeedsArchive(Cur)
        => LET out == clean_start(Cur, FALSE)
           IN /\ out.task.pc = "done"
              /\ out.s.ali.archives = archive_ledger_info.archives
              /\ out.s.ali.first_index = archive_ledger_info.first_index
              /\ out.s.txn_ledger = txn_ledger
              /\ ~out.s.ali.is_cleaning
     /\ (timers' = timers - 1 /\ ~NeedsArchive(Cur))
        => \A i \in 1..Len(tasks') : tasks'[i].pc # "create"
     /\ \A a \in DOMAIN archive_ledger_info'.archives :
          a \notin DOMAIN archive_ledger_info.archives
            => archive_ledger_info'.archives[a].start
                 = RangesEnd(archive_ledger_info.archives)]_vars

\* C24: a run arms the timer for a follow-up run only when the archive
\* acknowledged its slice and the slice was smaller than what remained to
\* migrate; a run whose append or whose archive creation failed arms none.
FollowUpAfterSuccess ==
  [][\A i \in 1..Len(tasks) :
       (tasks' = RemoveAt(tasks, i) /\ timers' > timers)
       => /\ AppendAcknowledged(i)
          /\ Len(tasks[i].ids)
               < tasks[i].txn_ledger_size - archive_ledger_info.setting.settle_to_records]_vars


(***************************************************************************)
(* Chronology of the log (checked under SpecDedup).                        *)
(***************************************************************************)
\* C25: the timestamps of the log entries do not decrease with the sequence
\* id, and so the backward scan of txn_deduplication_check, which stops at
\* the first entry older than the window floor, reports a duplicate whenever
\* an entry inside the window matches the request.
ChronologicalLog ==
  /\ \A i, j \in DOMAIN txn_ledger :
       i <= j => txn_ledger[i].ts <= txn_ledger[j].ts
  /\ \A caller \in Accounts, args \in TransferArgsT :
       (\E i \in EarlierSubmissions(caller, args) :
          txn_ledger[i].ts >= TimeWindow(now).past)
       => txn_deduplication_check(Cur, TimeWindow(now).past, caller, args).k = "Err"


(***************************************************************************)
(* Revocation (checked under SpecApproval).                                *)
(***************************************************************************)
\* The approval that the one-item revocation c names is not stored in the
\* current state: no approval of the token (or of the collection) granted by
\* the caller to the spender, or to anyone when no spender is given.
ApprovalAbsent(c) ==
  LET arg == c.args[1]
      granted ==
        IF c.op = "revoke_approve"
        THEN IF arg.token_id \in DOMAIN token_approvals
                /\ c.caller \in DOMAIN token_approvals[arg.token_id]
             THEN DOMAIN token_approvals[arg.token_id][c.caller] ELSE {}
        ELSE IF c.caller \in DOMAIN collection_approvals
             THEN DOMAIN collection_approvals[c.caller] ELSE {}
  IN IF arg.spender.some THEN arg.spender.v \notin granted ELSE granted = {}
\* The state after call c is submitted once more in state s.
Resubmitted(c, s, t) ==
  IF c.op = "revoke_approve"
  THEN revoke_approve(s, icrc7_atomic_batch_transfers, t, c.caller, c.args)
  ELSE revoke_collection_approve(s, icrc7_atomic_batch_transfers, t, c.caller, c.args)

\* C26: a revocation that passes validation and names an approval that is not
\* stored returns Ok and leaves both approval stores as they are; and
\* submitting a revocation a second time returns Ok and leaves the approval
\* stores as the first submission left them.
RevokeIdempotent ==
  [][(/\ call = Idle
      /\ call'.op \in {"revoke_approve", "revoke_collection_approve"}
      /\ ItemValidation(call', Cur, now)[1] = Valid)
     => /\ ApprovalAbsent(call')
           => /\ result'[1].k = "Ok"
              /\ token_approvals' = token_approvals
              /\ collection_approvals' = collection_approvals
        /\ result'[1].k = "Ok"
           => LET again == Resubmitted(call', Cur', now)
              IN /\ ~again.trap
                 /\ again.res[1].k = "Ok"
                 /\ again.s.token_approvals = token_approvals'
                 /\ again.s.collection_approvals = collection_approvals']_vars

\* An owner whose collection approvals were revoked revoked them again, and
\* the second revocation returned Ok.
RevokeIdempotentWitness ==
  /\ call.op = "revoke_collection_approve"
  /\ result[1].k = "Ok"
  /\ call.caller \notin DOMAIN collection_approvals
  /\ txn_count >= 3
  /\ \A i \in {txn_count - 2, txn_count - 1} :
       /\ txn_ledger[i].op = "37revoke_coll"
       /\ txn_ledger[i].from = SomeAcc(call.caller)
  /\ txn_ledger[txn_count - 3].op = "37appr_coll"
  /\ txn_ledger[txn_count - 3].from = SomeAcc(call.caller)


(***************************************************************************)
(* SpecGrant: batches of token approvals over two tokens and of collection *)
(* approvals, by two accounts, without the atomic flag.                    *)
(***************************************************************************)
ApproveArgsG ==
  [token_id : TokenIds, spender : Accounts, expires_at : {NoneNat}, memo : {NoneMemo}]
NextGrant ==
  \/ Mint(ByOwner(MintArgs1), MaxTxn)
  \/ Approve(ByAccounts(Batches(ApproveArgsG)), MaxTxn)
  \/ CollectionApprove(ByAccounts(Batches(ApproveCollectionArgsB)), MaxTxn)
  \/ Reply
SpecGrant == InitBatch /\ [][NextGrant]_vars

(***************************************************************************)
(* Stored approvals (checked under SpecGrant).                             *)
(***************************************************************************)
\* C27: every stored token approval and collection approval names a spender
\* other than the owner account it is filed under.
SpenderIsNotOwner ==
  /\ \A tid \in DOMAIN token_approvals :
       \A owner \in DOMAIN token_approvals[tid] :
         \A spender \in DOMAIN token_approvals[tid][owner] :
           /\ spender # owner
           /\ token_approvals[tid][owner][spender].spender # owner
  /\ \A owner \in DOMAIN collection_approvals :
       \A spender \in DOMAIN collection_approvals[owner] :
         /\ spender # owner
         /\ collection_approvals[owner][spender].spender # owner


(***************************************************************************)
(* The vector a batch call returns (checked under SpecBatch).              *)
(***************************************************************************)
\* C28: a batch of n >= 1 items that passes the batch preconditions returns n
\* slots; the slot of an item that fails validation holds that item's error,
\* and the slot of a committed item holds the sequence id of the log entry
\* appended for it, the ids growing with the position in the batch.
SlotPerItem ==
  [][(/\ call = Idle
      /\ call'.op \in BatchOps
      /\ icrc7_atomic_batch_transfers # SomeBool(TRUE)
      /\ call'.caller # Anonymous
      /\ Len(call'.args) \in 1..MaxUpdateBatch
      /\ result' # Trap)
     => LET v == ItemValidation(call', Cur, now)
            n == Len(call'.args)
        IN /\ Len(result') = n
           /\ \A i \in 1..n :
                IF IsErr(v[i]) THEN result'[i] = v[i]
                ELSE /\ result'[i].k \in {"Ok", "None"}
                     /\ result'[i].k = "Ok"
                          => /\ result'[i].id \in txn_count..(txn_count' - 1)
                             /\ \A j \in 1..(i - 1) :
                                  result'[j].k = "Ok" => result'[j].id < result'[i].id]_vars


(***************************************************************************)
(* Transfers on behalf of the owner (checked under SpecApproval).          *)
(***************************************************************************)
\* C29: transfer_from changes the owner of a token only if `from` owns it and
\* the caller holds an unexpired token or collection approval granted by
\* `from`; for a token that does not exist it returns an error for the item
\* and does not trap.
TransferFromAuthorized ==
  [][(call = Idle /\ call'.op = "transfer_from")
     => LET arg == call'.args[1]
            caller == call'.caller
        IN /\ arg.token_id \notin DOMAIN tokens
              => (result' # Trap /\ IsErr(result'[1]))
           /\ (/\ arg.token_id \in DOMAIN tokens
               /\ tokens'[arg.token_id] # tokens[arg.token_id])
              => /\ tokens[arg.token_id] = arg.from
                 /\ \/ is_approved_by_token(Cur, arg.token_id, arg.from, caller, now)
                    \/ is_approved_by_collection(Cur, arg.from, caller, now)]_vars


(***************************************************************************)
(* The sender recorded in the log (checked under Spec, where every entry   *)
(* stays in the local log).                                                *)
(***************************************************************************)
\* The entries before entry k that moved token tid: its mint, transfers and
\* burns.
MovesBefore(k, tid) ==
  {j \in DOMAIN txn_ledger :
     /\ j < k
     /\ txn_ledger[j].tid = tid
     /\ txn_ledger[j].op \in {"7mint", "7burn", TRANSACTION_TRANSFER_OP,
                              TRANSACTION_TRANSFER_FROM_OP}}

\* C30: every transfer and burn entry records as `from` the account that
\* owned the token when the entry was applied, that is the recipient of the
\* latest earlier entry that moved the token; so the second of two transfers
\* of one token by its owner in one batch is not applied.
FromIsOwner ==
  \A k \in DOMAIN txn_ledger :
    txn_ledger[k].op \in {TRANSACTION_TRANSFER_OP, "7burn"}
    => LET moves == MovesBefore(k, txn_ledger[k].tid)
       IN /\ moves # {}
          /\ \A j \in moves :
               (\A i \in moves : i <= j) => txn_ledger[k].from = txn_ledger[j].to


(***************************************************************************)
(* What approvals and revocations achieve (checked under SpecApproval).    *)
(***************************************************************************)
\* icrc37_is_approved for one item asked by `caller`: the approvals the
\* caller's account granted to arg.spender, over the token or the collection.
icrc37_is_approved(s, caller, arg, current_time) ==
  IF caller = Anonymous THEN FALSE
  ELSE \/ is_approved_by_collection(s, caller, arg.spender, current_time)
       \/ is_approved_by_token(s, arg.token_id, caller, arg.spender, current_time)

\* C31: right after an approve or collection_approve that returned Ok, the
\* spender it names is approved by the caller (for the token named, or for
\* token 0 in the case of the collection), whatever records were stored
\* before.
ApproveTakesEffect ==
  [][(/\ call = Idle
      /\ call'.op \in {"approve", "collection_approve"}
      /\ result' # Trap
      /\ result'[1].k = "Ok")
     => LET arg == call'.args[1]
            asked == [token_id |-> IF call'.op = "approve" THEN arg.token_id ELSE 0,
                      spender |-> arg.spender]
        IN icrc37_is_approved(Cur', call'.caller, asked, now)]_vars

\* C32: right after a revoke_approve naming a spender that returned Ok, the
\* spender holds no token approval from the caller for that token; right
\* after a revoke_collection_approve naming a spender that returned Ok, the
\* caller's collection approval for that spender is gone.
RevokeTakesEffect ==
  [][(/\ call = Idle
      /\ call'.op \in {"revoke_approve", "revoke_collection_approve"}
      /\ result' # Trap
      /\ result'[1].k = "Ok"
      /\ call'.args[1].spender.some)
     => LET arg == call'.args[1]
            caller == call'.caller
        IN IF call'.op = "revoke_approve"
           THEN ~is_approved_by_token(Cur', arg.token_id, caller, arg.spender.v, now)
           ELSE ~(/\ caller \in DOMAIN collection_approvals'
                  /\ arg.spender.v \in DOMAIN collection_approvals'[caller])]_vars


(***************************************************************************)
(* Fresh stamped transfers (checked under SpecDedup).                      *)
(***************************************************************************)
\* C33: a transfer with created_at_time inside the window that matches no
\* entry of the log, and whose other preconditions hold, does not trap and
\* is committed.
FreshTransferPasses ==
  [][(/\ call = Idle
      /\ call'.op = "icrc7_transfer"
      /\ call'.args[1].created_at_time.some
      /\ InWindow(call'.args[1].created_at_time.v, now)
      /\ EarlierSubmissions(call'.caller, call'.args[1]) = {}
      /\ mock_transfer(Cur, now, call'.caller,
                       [call'.args[1] EXCEPT !.created_at_time = NoneNat]) = Valid)
     => /\ result' # Trap
        /\ result'[1].k = "Ok"
        /\ txn_count' = txn_count + 1]_vars


(***************************************************************************)
(* SpecSerial: the deployments of SpecArchive when a clean-up timer fires  *)
(* only while no archival run is suspended, so that at most one run is in  *)
(* flight; appends still interleave with the suspended run.                *)
(***************************************************************************)
CleanStartAlone == tasks = <<>> /\ CleanStart
NextSerial ==
  \/ Mint(ByOwner(MintArgs1), MaxLog)
  \/ Transfer(ByOwner(TransferArgs1), MaxLog)
  \/ Burn(ByOwner(BurnArgs1), MaxLog)
  \/ Approve(ByOwner(ApproveArgs1), MaxLog)
  \/ CleanStartAlone
  \/ CreateReturn
  \/ AppendReturn
SpecSerial == InitArchive /\ [][NextSerial]_vars

\* C34: with at most one run in flight, the local log holds exactly the ids
\* first_index .. txn_count - 1, and the archive ranges are pairwise disjoint
\* and cover exactly 0 .. first_index - 1.
IndexContinuity ==
  /\ DOMAIN txn_ledger = archive_ledger_info.first_index..(txn_count - 1)
  /\ \A a, b \in DOMAIN archive_ledger_info.archives :
       a # b => ArchiveRange(a) \cap ArchiveRange(b) = {}
  /\ UNION {ArchiveRange(a) : a \in DOMAIN archive_ledger_info.archives}
       = 0..(archive_ledger_info.first_index - 1)

\* After an earlier migration, a run is suspended at the archive's append
\* call and the log has grown since the run read its size.
IndexContinuityWitness ==
  /\ Len(tasks) = 1
  /\ tasks[1].pc = "append"
  /\ archive_ledger_info.first_index > 0
  /\ LocalSize > tasks[1].txn_ledger_size

\* The archives created last: with one run in flight a new range starts at
\* first_index, which never decreases, so they are those with the greatest
\* range start.
Newest(archives) ==
  {a \in DOMAIN archives : \A b \in DOMAIN archives : archives[b].start <= archives[a].start}

\* C35: a run that starts requests a new archive only when no archive exists
\* or an archive created last is full, and otherwise migrates into an archive
\* created last, whatever the order of the archive principals.
TargetIsNewest ==
  [][(timers' = timers - 1 /\ Len(tasks') = Len(tasks) + 1)
     => LET archives == archive_ledger_info.archives
            task == tasks'[Len(tasks')]
        IN IF task.pc = "create"
           THEN \/ DOMAIN archives = {}
                \/ \E a \in Newest(archives) :
                     archives[a].length
                       >= archive_ledger_info.setting.max_records_in_archive_instance
           ELSE task.archive \in Newest(archives)]_vars

\* C36: no archive range is longer than max_records_in_archive_instance, and
\* the length of each archive's range is the number of distinct blocks the
\* archive acknowledged.
RangeCountsBlocks ==
  \A a \in DOMAIN archive_ledger_info.archives :
    /\ archive_ledger_info.archives[a].length
         <= archive_ledger_info.setting.max_records_in_archive_instance
    /\ a \in DOMAIN archive_canisters
    /\ archive_ledger_info.archives[a].length
         = Cardinality({archive_canisters[a][n] : n \in 1..Len(archive_canisters[a])})


(***************************************************************************)
(* SpecLive: a deployment whose runs move one entry at a time, in which    *)
(* the cycle balance is sufficient and every remote call succeeds; the     *)
(* timer callback and the replies of the remote calls are weakly fair.     *)
(* Appends stop once the log has received MaxLog entries.                  *)
(***************************************************************************)
SettingSlow ==
  [max_active_records |-> 3, settle_to_records |-> 1,
   max_records_in_archive_instance |-> 4, max_records_to_archive |-> 1]
InitLive == InitWith({SettingSlow}, {NoneBool}, {FALSE}, NowStart, Untraced)

\* The timer callback of one run at a time, with a sufficient balance.
CleanStartFunded ==
  /\ CleanStartAlone
  /\ LET out == clean_start([Cur EXCEPT !.timers = @ - 1], TRUE)
     IN /\ archive_ledger_info' = out.s.ali
        /\ tasks' = IF out.task.pc = "done" THEN tasks ELSE Append(tasks, out.task)
\* create_archive_canister returns Ok.
CreateOk == CreateReturn /\ DOMAIN archive_canisters' # DOMAIN archive_canisters
\* call_append_blocks returns Ok.
AppendOk ==
  /\ AppendReturn
  /\ \E i \in 1..Len(tasks) :
       /\ tasks[i].pc = "append"
       /\ tasks' = RemoveAt(tasks, i)
       /\ archive_ledger_info' = clean_appended(Cur, tasks[i], TRUE).ali
       /\ txn_ledger' = clean_appended(Cur, tasks[i], TRUE).txn_ledger
       /\ archive_canisters' =
            [archive_canisters EXCEPT ![tasks[i].archive] = @ \o tasks[i].blocks]
NextLive ==
  \/ Mint(ByOwner(MintArgs1), MaxLog)
  \/ Transfer(ByOwner(TransferArgs1), MaxLog)
  \/ Burn(ByOwner(BurnArgs1), MaxLog)
  \/ Approve(ByOwner(ApproveArgs1), MaxLog)
  \/ CleanStartFunded
  \/ CreateOk
  \/ AppendOk
SpecLive ==
  /\ InitLive
  /\ [][NextLive]_vars
  /\ WF_vars(CleanStartFunded)
  /\ WF_vars(CreateOk)
  /\ WF_vars(AppendOk)

\* C37: once the log has received its last entry and archival is triggered
\* (a timer is pending or a run is suspended), the runs eventually leave
\* settle_to_records entries in the local log, with no run in flight and
\* is_cleaning false.
DrainsToSettle ==
  (txn_count = MaxLog /\ (timers > 0 \/ tasks # <<>>))
    ~> (/\ LocalSize = archive_ledger_info.setting.settle_to_records
        /\ tasks = <<>>
        /\ ~archive_ledger_info.is_cleaning)

\* C38: in either build and for every request, get_blocks completes when an
\* archive with an empty range exists, and when it completes the ids of the
\* blocks it returns are exactly the requested ids that are held locally: each
\* lies inside a requested span and inside the local log, and no locally held
\* id of a requested span is left out.
BlocksWithinRequest ==
  \A args \in GetBlocksArgs, checks \in BOOLEAN :
    LET r == icrc3_get_blocks(Cur, args, checks)
        ids == {r.blocks[n] : n \in 1..Len(r.blocks)}
    IN /\ (\E a \in DOMAIN archive_ledger_info.archives :
             archive_ledger_info.archives[a].length = 0) => ~r.trap
       /\ ~r.trap => /\ ids \subseteq Requested(args)
                     /\ ids \subseteq DOMAIN txn_ledger
                     /\ Requested(args) \cap DOMAIN txn_ledger \subseteq ids


(***************************************************************************)
(* SpecSupply: a collection constructed with a supply cap; mints, transfers *)
(* and burns by every account.                                             *)
(***************************************************************************)
SupplyCap == 2

\* mock_mint without the supply cap test: the mutant of mock_mint_capped.
mock_mint_uncapped(cap, s, caller, arg) ==
  mock_mint(s, caller, arg)

\* mock_mint of a State whose icrc7_supply_cap is cap: the cap test comes
\* first, the other tests are those of mock_mint.
mock_mint_capped(cap, s, caller, arg) ==
  IF cap.some /\ cap.v = s.icrc7_total_supply
  THEN ErrRes("SupplyCapReached")
  ELSE mock_mint(s, caller, arg)

\* mint of a State whose icrc7_supply_cap is cap.
mint_capped(cap, s, current_time, caller, arg) ==
  LET v == mock_mint_capped(cap, s, caller, arg) IN
  IF v # Valid THEN Returned(s, <<v>>)
  ELSE mint(s, current_time, caller, arg)

MintCapped(calls, cap) ==
  \E c \in calls :
    Do("mint", c[1], c[2], mint_capped(SomeNat(SupplyCap), Cur, now, c[1], c[2][1]), cap)

\* One mintable id more than the cap admits.
MintArgsS == [token_id : 0..SupplyCap, to : Accounts, memo : {NoneMemo}]
TransferArgsS ==
  [token_id : {0}, to : Accounts, memo : {NoneMemo}, created_at_time : {NoneNat}]

InitSupply == InitWith({SettingLarge}, {NoneBool}, {FALSE}, NowStart, Idle)
NextSupply ==
  \/ MintCapped(ByAccounts(Single(MintArgsS)), MaxLog)
  \/ Transfer(ByAccounts(Single(TransferArgsS)), MaxLog)
  \/ Burn(ByAccounts(Single(BurnArgsB)), MaxLog)
  \/ Reply
SpecSupply == InitSupply /\ [][NextSupply]_vars

\* C39: in every reachable state icrc7_total_supply is the number of token
\* records and is at most the supply cap; no step removes a token record, and
\* a burn leaves every record in place, changing at most the owner of a
\* record, to the burn account.
SupplyCountsRecords ==
  /\ [](/\ icrc7_total_supply = Cardinality(DOMAIN tokens)
        /\ icrc7_total_supply <= SupplyCap)
  /\ [][/\ DOMAIN tokens \subseteq DOMAIN tokens'
        /\ (call = Idle /\ call'.op = "burn")
           => /\ DOMAIN tokens' = DOMAIN tokens
              /\ \A t \in DOMAIN tokens : tokens'[t] \in {tokens[t], BurnAccount}]_vars

\* The cap is reached, a further mint by the minting authority has just been
\* refused for it, and a burnt token is still counted.
SupplyCountsRecordsWitness ==
  /\ icrc7_total_supply = SupplyCap
  /\ call \notin {Idle, Untraced}
  /\ call.op = "mint"
  /\ SomeAcc(call.caller) = minting_authority
  /\ result = <<ErrRes("SupplyCapReached")>>
  /\ \E t \in DOMAIN tokens : tokens[t] = BurnAccount

====
